---- MODULE Spec2Model ----
(***************************************************************************)
(* A model of NokoLucky/grocery-ai-api: the promotions cache of            *)
(* get-current-promotions/route.ts (GET and POST handlers interleaving at  *)
(* their awaits), the provider chain of FreeAIService.generateText, and    *)
(* the post-processing of suggestions and store products.                  *)
(*                                                                         *)
(* Each part has its own specification over the same variables; the parts  *)
(* a specification does not move stay at their initial value.              *)
(***************************************************************************)
EXTENDS Integers, Sequences, FiniteSets, TLC

VARIABLES
    \* ---- get-current-promotions/route.ts (module state and requests)
    cache,            \* let cache: null or {promotions, cachedAt}
    lastCacheUpdate,  \* let lastCacheUpdate
    clock,            \* Date.now()
    req,              \* the requests: kind, position, the `now` they read, response
    flowCalls,        \* how often getCurrentPromotionsFlow has been invoked
    \* ---- FreeAIService.generateText
    build,            \* which of the two definitions of the class is compiled in
    groqKey,          \* process.env.GROQ_API_KEY present
    orKey,            \* process.env.OPENROUTER_API_KEY present
    prompt,           \* the prompt: the endpoint that built it and the detection
                      \* markers it contains
    tpc,              \* position in generateText
    sent,             \* the requests sent so far, with the answer each got
    result,           \* what generateText resolved to
    via,              \* the return statement that produced result
    \* ---- suggest-item-completions/route.ts
    sugIn,            \* the parsed payload handed to validateAndProcessSuggestions
    sugOut,           \* what it returned
    spc,
    \* ---- get-store-products/route.ts
    prodIn,           \* the list handed to validateProducts
    prodOut,          \* what it returned
    ppc,
    \* ---- get-current-promotions/route.ts, processPromotionsWithImages
    promoIn,          \* the promotions list handed to processPromotionsWithImages
    promoOut,         \* what it resolved to, or that it rejected
    prpc,
    \* ---- get-store-products/route.ts, generateProductImages
    imgBuild,         \* which definition of FreeAIService is compiled in
    unsplashKey,      \* process.env.UNSPLASH_ACCESS_KEY present
    imgIn,            \* the validated products handed to generateProductImages
    imgJobs,          \* per product: the state of its map callback
    imgOut,           \* what Promise.all resolved to
    ipc,
    \* ---- generate-product-image/route.ts (module state and requests)
    imageCache,       \* let imageCache: normalized hint -> URL
    pexelsKey,        \* process.env.PEXELS_API_KEY present
    ireq,             \* the POST requests: hint, position, response
    pexelsCalls,      \* how often the Pexels search has been fetched
    \* ---- one request through a route handler, from its body to its response
    call,             \* the endpoint, its required field, the build, the image key
    aiText,           \* what FreeAIService.generateText resolved to
    cpc,              \* position in the handler
    reply,            \* the response: status, length of the list, image URL
    contacted,        \* the backends fetched for the request
    \* ---- price estimates: the recomputation of the stores' derived fields
    estIn,            \* the stores as the model's payload gives them
    estOut,           \* the stores after the recomputation
    epc

cacheVars == <<cache, lastCacheUpdate, clock, req, flowCalls>>
textVars  == <<build, groqKey, orKey, prompt, tpc, sent, result, via>>
sugVars   == <<sugIn, sugOut, spc>>
prodVars  == <<prodIn, prodOut, ppc>>
promoVars == <<promoIn, promoOut, prpc>>
imgVars == <<imgBuild, unsplashKey, imgIn, imgJobs, imgOut, ipc>>
icVars == <<imageCache, pexelsKey, ireq, pexelsCalls>>
callVars == <<call, aiText, cpc, reply, contacted>>
estVars == <<estIn, estOut, epc>>
vars      == <<cacheVars, textVars, sugVars, prodVars, promoVars, imgVars, icVars, callVars, estVars>>

Null == [null |-> TRUE]

(***************************************************************************)
(* Values the parts hold while another part's specification runs.          *)
(***************************************************************************)
CacheIdle ==
    /\ cache = Null
    /\ lastCacheUpdate = 0
    /\ clock = 0
    /\ req = <<>>
    /\ flowCalls = 0

TextIdle ==
    /\ build = "chain"
    /\ groqKey = FALSE
    /\ orKey = FALSE
    /\ prompt = [endpoint |-> "none", marks |-> {}]
    /\ tpc = "idle"
    /\ sent = <<>>
    /\ result = Null
    /\ via = "none"

SugIdle ==
    /\ sugIn = Null
    /\ sugOut = Null
    /\ spc = "idle"

ProdIdle ==
    /\ prodIn = Null
    /\ prodOut = <<>>
    /\ ppc = "idle"

PromoIdle ==
    /\ promoIn = <<>>
    /\ promoOut = Null
    /\ prpc = "idle"

ImagesIdle ==
    /\ imgBuild = "chain"
    /\ unsplashKey = FALSE
    /\ imgIn = <<>>
    /\ imgJobs = <<>>
    /\ imgOut = Null
    /\ ipc = "idle"

ImageCacheIdle ==
    /\ imageCache = <<>>
    /\ pexelsKey = FALSE
    /\ ireq = <<>>
    /\ pexelsCalls = 0

CallIdle ==
    /\ call = [ep |-> "none", field |-> "ok", build |-> "chain", key |-> FALSE]
    /\ aiText = <<>>
    /\ cpc = "idle"
    /\ reply = [status |-> 0, n |-> 0, imageUrl |-> ""]
    /\ contacted = {}

EstimatesIdle ==
    /\ estIn = <<>>
    /\ estOut = <<>>
    /\ epc = "idle"

(***************************************************************************)
(*                 THE PROMOTIONS CACHE  (GET / POST)                      *)
(***************************************************************************)

\* const CACHE_DURATION = 24 * 60 * 60 * 1000;
CACHE_DURATION == 24 * 60 * 60 * 1000

\* The clock advances in steps of half a TTL, so that both "exactly TTL later"
\* and "less than TTL later" are times a request can arrive at.
Tick == CACHE_DURATION \div 2

\* Date.now() when the process starts: milliseconds since 1970, far more than
\* one TTL.
Epoch == 4 * CACHE_DURATION

MaxTicks == 3
MaxReqs == 2

Requests == 1..MaxReqs

\* What the model may answer to the promotions prompt, by its effect on
\* getCurrentPromotionsFlow.
RawTexts == {"promosA", "promosB", "prose", "null", "nullElement"}

promosA == <<"a1", "a2">>
promosB == <<"b1">>

\* parseAIResponse followed by `parsedResult.promotions || []` and
\* processPromotionsWithImages: the promotions, or the exception that leaves
\* getCurrentPromotionsFlow.
\*   "prose"        no JSON at all: parseAIResponse returns {promotions: []}
\*   "null"         the text `null`: JSON.parse gives null, null.promotions throws
\*   "nullElement"  {"promotions":[null]}: promotion.title on null throws
getCurrentPromotionsFlow(raw) ==
    CASE raw = "promosA" -> [ok |-> TRUE, promotions |-> promosA]
      [] raw = "promosB" -> [ok |-> TRUE, promotions |-> promosB]
      [] raw = "prose"   -> [ok |-> TRUE, promotions |-> <<>>]
      [] OTHER           -> [ok |-> FALSE, promotions |-> <<>>]

NoResp == [status |-> 0, promotions |-> <<>>]
\* A request: its method, where it stands, the `now` it read on arrival, the text
\* the model answered to its generation ("none" before, and for a cache hit),
\* and its response.
IdleReq == [kind |-> "none", pc |-> "idle", now |-> 0, raw |-> "none", resp |-> NoResp]

\* Requests are numbered in the order they arrive.
Arrives(r) == req[r].pc = "idle" /\ \A q \in Requests : q < r => req[q].pc # "idle"

\* (mutant) the TTL check taking an entry without promotions for no entry.
CacheHitNonEmpty(c, now, last) ==
    c # Null /\ c.promotions # <<>> /\ (now - last) < CACHE_DURATION

\* (mutant) the TTL check with the boundary included.
CacheHitInclusive(c, now, last) == c # Null /\ (now - last) <= CACHE_DURATION

\* if (cache && (now - lastCacheUpdate) < CACHE_DURATION)
CacheHit(c, now, last) == c # Null /\ (now - last) < CACHE_DURATION

\* (mutant) an entry that is already there is kept: the first writer wins.
NewEntryUnlessStored(promotions, at) ==
    IF cache # Null THEN cache ELSE [promotions |-> promotions, cachedAt |-> at]

\* cache = { promotions: result.promotions, cachedAt: new Date().toISOString() }
NewEntry(promotions, at) == [promotions |-> promotions, cachedAt |-> at]

\* lastCacheUpdate = now;   (GET: the `now` read when the request started)
GetStamp(now, current) == now

\* lastCacheUpdate = Date.now();   (POST: read after the generation)
PostStamp(now, current) == current

\* (mutant) the catch block without the stale-entry branch.
GetCatchResponseNoStale(c) == [status |-> 500, promotions |-> <<>>]

\* The catch block of GET: the stale entry if there is one, else 500.
GetCatchResponse(c) ==
    IF c # Null THEN [status |-> 200, promotions |-> c.promotions]
    ELSE [status |-> 500, promotions |-> <<>>]

\* (mutant) POST without the clearing of the entry.
PostKeepsCache(c) == c

\* (mutant) POST clearing the entry only.
PostKeepsStamp(last) == last

\* (mutant) POST clearing the entry only when it is stale.
PostClearsStaleOnly(c) ==
    IF c # Null /\ (clock - lastCacheUpdate) < CACHE_DURATION THEN c ELSE Null

\* POST: cache = null; lastCacheUpdate = 0;
PostClearedCache(c) == Null
PostClearedStamp(last) == 0

\* GET up to its first await: the TTL check; a hit answers at once, a miss
\* calls getCurrentPromotionsFlow.
GetStart(r) ==
    /\ Arrives(r)
    /\ IF CacheHit(cache, clock, lastCacheUpdate)
       THEN /\ req' = [req EXCEPT ![r] = [kind |-> "GET", pc |-> "done", now |-> clock,
                          raw |-> "none",
                          resp |-> [status |-> 200, promotions |-> cache.promotions]]]
            /\ UNCHANGED flowCalls
       ELSE /\ req' = [req EXCEPT ![r] = [kind |-> "GET", pc |-> "generating",
                          now |-> clock, raw |-> "none", resp |-> NoResp]]
            /\ flowCalls' = flowCalls + 1
    /\ UNCHANGED <<cache, lastCacheUpdate, clock>>

\* GET after the await, the flow resolved: store and answer.
GetResolve(r, raw) ==
    /\ req[r].kind = "GET" /\ req[r].pc = "generating"
    /\ getCurrentPromotionsFlow(raw).ok
    /\ LET p == getCurrentPromotionsFlow(raw).promotions IN
         /\ cache' = NewEntry(p, clock)
         /\ lastCacheUpdate' = GetStamp(req[r].now, clock)
         /\ req' = [req EXCEPT ![r].pc = "done", ![r].raw = raw,
                               ![r].resp = [status |-> 200, promotions |-> p]]
    /\ UNCHANGED <<clock, flowCalls>>

\* GET after the await, the flow threw: the catch block.
GetReject(r, raw) ==
    /\ req[r].kind = "GET" /\ req[r].pc = "generating"
    /\ ~getCurrentPromotionsFlow(raw).ok
    /\ req' = [req EXCEPT ![r].pc = "done",
                          ![r].raw = raw,
                          ![r].resp = GetCatchResponse(cache)]
    /\ UNCHANGED <<cache, lastCacheUpdate, clock, flowCalls>>

\* POST up to its first await: clear, then call the flow.
PostStart(r) ==
    /\ Arrives(r)
    /\ cache' = PostClearedCache(cache)
    /\ lastCacheUpdate' = PostClearedStamp(lastCacheUpdate)
    /\ req' = [req EXCEPT ![r] = [kind |-> "POST", pc |-> "generating", now |-> clock,
                                  raw |-> "none", resp |-> NoResp]]
    /\ flowCalls' = flowCalls + 1
    /\ UNCHANGED clock

PostResolve(r, raw) ==
    /\ req[r].kind = "POST" /\ req[r].pc = "generating"
    /\ getCurrentPromotionsFlow(raw).ok
    /\ LET p == getCurrentPromotionsFlow(raw).promotions IN
         /\ cache' = NewEntry(p, clock)
         /\ lastCacheUpdate' = PostStamp(req[r].now, clock)
         /\ req' = [req EXCEPT ![r].pc = "done", ![r].raw = raw,
                               ![r].resp = [status |-> 200, promotions |-> p]]
    /\ UNCHANGED <<clock, flowCalls>>

PostReject(r, raw) ==
    /\ req[r].kind = "POST" /\ req[r].pc = "generating"
    /\ ~getCurrentPromotionsFlow(raw).ok
    /\ req' = [req EXCEPT ![r].pc = "done", ![r].raw = raw,
                          ![r].resp = [status |-> 500, promotions |-> <<>>]]
    /\ UNCHANGED <<cache, lastCacheUpdate, clock, flowCalls>>

\* Time passes (between requests, and while a generation is awaited).
TickClock ==
    /\ clock < Epoch + MaxTicks * Tick
    /\ clock' = clock + Tick
    /\ UNCHANGED <<cache, lastCacheUpdate, req, flowCalls>>

CacheInit ==
    /\ cache = Null
    /\ lastCacheUpdate = 0
    /\ clock = Epoch
    /\ req = [r \in Requests |-> IdleReq]
    /\ flowCalls = 0

Init == CacheInit /\ TextIdle /\ SugIdle /\ ProdIdle /\ PromoIdle /\ ImagesIdle /\ ImageCacheIdle /\ CallIdle /\ EstimatesIdle

Next ==
    \/ \E r \in Requests : GetStart(r) /\ UNCHANGED <<textVars, sugVars, prodVars, promoVars, imgVars, icVars, callVars, estVars>>
    \/ \E r \in Requests, raw \in RawTexts :
          GetResolve(r, raw) /\ UNCHANGED <<textVars, sugVars, prodVars, promoVars, imgVars, icVars, callVars, estVars>>
    \/ \E r \in Requests, raw \in RawTexts :
          GetReject(r, raw) /\ UNCHANGED <<textVars, sugVars, prodVars, promoVars, imgVars, icVars, callVars, estVars>>
    \/ \E r \in Requests : PostStart(r) /\ UNCHANGED <<textVars, sugVars, prodVars, promoVars, imgVars, icVars, callVars, estVars>>
    \/ \E r \in Requests, raw \in RawTexts :
          PostResolve(r, raw) /\ UNCHANGED <<textVars, sugVars, prodVars, promoVars, imgVars, icVars, callVars, estVars>>
    \/ \E r \in Requests, raw \in RawTexts :
          PostReject(r, raw) /\ UNCHANGED <<textVars, sugVars, prodVars, promoVars, imgVars, icVars, callVars, estVars>>
    \/ TickClock /\ UNCHANGED <<textVars, sugVars, prodVars, promoVars, imgVars, icVars, callVars, estVars>>

Spec == Init /\ [][Next]_vars

(***************************************************************************)
(* Claims about the promotions cache, checked under Spec.                  *)
(***************************************************************************)

GetArrives(r)  == req[r].pc = "idle" /\ req'[r].kind = "GET"
PostArrives(r) == req[r].pc = "idle" /\ req'[r].kind = "POST"
Completes(r, kind) ==
    req[r].kind = kind /\ req[r].pc = "generating" /\ req'[r].pc = "done"

Ok200(promotions) == [status |-> 200, promotions |-> promotions]

\* C3 (as claimed): a GET that arrives less than CACHE_DURATION after the last
\* successful cache write (the entry's cachedAt, the entry still being there)
\* is answered with exactly the stored promotions, without calling
\* getCurrentPromotionsFlow and without touching the entry or its timestamp.
C3_ServedWithinTtlOfLastWrite ==
    [][\A r \in Requests :
          (GetArrives(r) /\ cache # Null /\ (clock - cache.cachedAt) < CACHE_DURATION)
          => /\ req'[r].pc = "done"
             /\ req'[r].resp = Ok200(cache.promotions)
             /\ flowCalls' = flowCalls
             /\ cache' = cache
             /\ lastCacheUpdate' = lastCacheUpdate]_vars

\* What the code does guarantee (not claim C3): the window is measured from
\* lastCacheUpdate, which for an entry written by GET is the arrival time of the
\* request that generated it.
ServedWithinTtlOfStamp ==
    [][\A r \in Requests :
          (GetArrives(r) /\ cache # Null /\ (clock - lastCacheUpdate) < CACHE_DURATION)
          => /\ req'[r].pc = "done"
             /\ req'[r].resp = Ok200(cache.promotions)
             /\ flowCalls' = flowCalls
             /\ cache' = cache
             /\ lastCacheUpdate' = lastCacheUpdate]_vars

\* C4: when the generation a GET started fails, the answer is the stored
\* promotions with status 200 if an entry exists, whatever its age, and status
\* 500 only if none exists; the entry and its timestamp stay as they were.
C4_StaleOnError ==
    [][\A r \in Requests :
          (Completes(r, "GET") /\ ~getCurrentPromotionsFlow(req'[r].raw).ok)
          => /\ cache' = cache
             /\ lastCacheUpdate' = lastCacheUpdate
             /\ (cache # Null => req'[r].resp = Ok200(cache.promotions))
             /\ (cache = Null <=> req'[r].resp.status = 500)]_vars

\* C4 witness: a GET whose generation failed was answered 200 from an entry that
\* was already older than the TTL when the request arrived.
C4_Witness ==
    \E r \in Requests :
        /\ req[r].kind = "GET" /\ req[r].pc = "done"
        /\ req[r].raw \in RawTexts /\ ~getCurrentPromotionsFlow(req[r].raw).ok
        /\ cache # Null
        /\ req[r].resp = Ok200(cache.promotions)
        /\ (req[r].now - lastCacheUpdate) >= CACHE_DURATION

\* C5: a POST never answers from the cache: on arrival it clears the entry and
\* the timestamp whatever the entry's age and calls the flow; when the flow
\* succeeds it stores the new promotions with the timestamp set to the current
\* time and answers with them, so that the entry is within its TTL from then
\* on, and a GET that arrives within the TTL while the entry of a successful
\* POST is the stored one is answered with that POST's promotions, without
\* another generation.
C5_ForceRefresh ==
    [][/\ \A r \in Requests :
             PostArrives(r)
             => /\ cache' = Null
                /\ lastCacheUpdate' = 0
                /\ req'[r].pc = "generating"
                /\ req'[r].resp = NoResp
                /\ flowCalls' = flowCalls + 1
       /\ \A r \in Requests :
             (Completes(r, "POST") /\ getCurrentPromotionsFlow(req'[r].raw).ok)
             => /\ cache' # Null
                /\ cache'.promotions = getCurrentPromotionsFlow(req'[r].raw).promotions
                /\ lastCacheUpdate' = clock
                /\ req'[r].resp = Ok200(cache'.promotions)
                /\ \A t \in {clock, clock + Tick} :
                      CacheHit(cache', t, lastCacheUpdate')
       /\ \A r, p \in Requests :
             (/\ GetArrives(r)
              /\ req[p].kind = "POST" /\ req[p].pc = "done" /\ req[p].resp.status = 200
              /\ cache # Null /\ cache.promotions = req[p].resp.promotions
              /\ (clock - lastCacheUpdate) < CACHE_DURATION)
             => /\ req'[r].pc = "done"
                /\ req'[r].resp = req[p].resp
                /\ flowCalls' = flowCalls]_vars

\* C5 witness: a POST has stored its promotions, and a GET that arrived later,
\* within the TTL, was answered from the cache with the refreshed promotions.
C5_Witness ==
    \E p, r \in Requests :
        /\ p < r
        /\ req[p].kind = "POST" /\ req[p].pc = "done" /\ req[p].resp.status = 200
        /\ req[r].kind = "GET" /\ req[r].pc = "done" /\ req[r].raw = "none"
        /\ req[r].resp = req[p].resp
        /\ req[r].now > req[p].now
        /\ cache # Null /\ cache.promotions = req[p].resp.promotions

\* C18: a GET that finds the entry missing or stale starts its own generation
\* even while another request is generating (no single-flight guard); every
\* GET whose generation succeeds overwrites the entry with its own result, so
\* the request that finishes last decides the stored entry; and the stored
\* entry always is the whole result of one generation.
C18_LastFinisherWins ==
    [][/\ \A r \in Requests :
             (GetArrives(r) /\ ~(cache # Null /\ (clock - lastCacheUpdate) < CACHE_DURATION))
             => /\ req'[r].pc = "generating"
                /\ flowCalls' = flowCalls + 1
       /\ \A r \in Requests :
             (Completes(r, "GET") /\ getCurrentPromotionsFlow(req'[r].raw).ok)
             => /\ cache' # Null
                /\ cache'.promotions = getCurrentPromotionsFlow(req'[r].raw).promotions
                /\ req'[r].resp = Ok200(cache'.promotions)
       /\ cache' # Null
             => \E raw \in RawTexts :
                   /\ getCurrentPromotionsFlow(raw).ok
                   /\ cache'.promotions = getCurrentPromotionsFlow(raw).promotions]_vars

\* C18 witness: two GETs arrived at the same time, both generated, with
\* different results, and the stored entry is the result of the first to
\* arrive, which therefore finished last.
C18_Witness ==
    /\ MaxReqs >= 2
    /\ req[1].kind = "GET" /\ req[1].pc = "done" /\ req[1].raw = "promosA"
    /\ req[2].kind = "GET" /\ req[2].pc = "done" /\ req[2].raw = "promosB"
    /\ req[1].now = req[2].now
    /\ req[1].resp = Ok200(promosA) /\ req[2].resp = Ok200(promosB)
    /\ cache # Null /\ cache.promotions = promosA
    /\ flowCalls = 2

\* C19 (as claimed): a GET that finds an entry whose timestamp is at most
\* CACHE_DURATION old is answered from the cache; a generation is started only
\* for an entry more than CACHE_DURATION old.
C19_ServedUpToTtl ==
    [][\A r \in Requests :
          (GetArrives(r) /\ cache # Null)
          => IF (clock - lastCacheUpdate) <= CACHE_DURATION
             THEN req'[r].pc = "done" /\ req'[r].resp = Ok200(cache.promotions)
                  /\ flowCalls' = flowCalls
             ELSE req'[r].pc = "generating" /\ flowCalls' = flowCalls + 1]_vars

\* C19 (amended): a GET that finds an entry whose timestamp is less than
\* CACHE_DURATION old is answered from the cache; for an entry exactly
\* CACHE_DURATION old, or older, a generation is started.
C19_ServedBelowTtl ==
    [][\A r \in Requests :
          (GetArrives(r) /\ cache # Null)
          => IF (clock - lastCacheUpdate) < CACHE_DURATION
             THEN req'[r].pc = "done" /\ req'[r].resp = Ok200(cache.promotions)
                  /\ flowCalls' = flowCalls
             ELSE req'[r].pc = "generating" /\ flowCalls' = flowCalls + 1]_vars

\* C19 witness: a GET arrived exactly CACHE_DURATION after the timestamp of the
\* stored entry and is generating.
C19_Witness ==
    \E r \in Requests :
        /\ req[r].kind = "GET" /\ req[r].pc = "generating"
        /\ cache # Null
        /\ req[r].now - lastCacheUpdate = CACHE_DURATION

\* C26: the entry is empty exactly when the timestamp is 0.
C26_EntryIffStamp == (cache = Null) <=> (lastCacheUpdate = 0)

\* C26 witness: a GET has stored an entry, and a POST that arrived afterwards
\* and is still generating has cleared both the entry and the timestamp.
C26_Witness ==
    /\ cache = Null /\ lastCacheUpdate = 0
    /\ \E g, p \in Requests :
          /\ g < p
          /\ req[g].kind = "GET" /\ req[g].pc = "done" /\ req[g].raw = "promosA"
          /\ req[p].kind = "POST" /\ req[p].pc = "generating"

C28_StampNeverBackwards ==
    [][cache' # Null => lastCacheUpdate' >= lastCacheUpdate]_vars

\* What the code does guarantee (not claim C28): the timestamp a POST stores is
\* not earlier than the one it replaces.
PostStampNeverBackwards ==
    [][\A r \in Requests :
          (Completes(r, "POST") /\ cache' # cache) => lastCacheUpdate' >= lastCacheUpdate]_vars

\* C29: a generation that ends with zero promotions is stored like any other,
\* and a GET that arrives within the TTL of such an entry is answered with the
\* empty list without another generation.
C29_EmptyListCached ==
    [][/\ \A r \in Requests : \A kind \in {"GET", "POST"} :
             (/\ Completes(r, kind) /\ getCurrentPromotionsFlow(req'[r].raw).ok
              /\ getCurrentPromotionsFlow(req'[r].raw).promotions = <<>>)
             => /\ cache' # Null /\ cache'.promotions = <<>>
                /\ lastCacheUpdate' = (IF kind = "GET" THEN req[r].now ELSE clock)
                /\ req'[r].resp = Ok200(<<>>)
       /\ \A r \in Requests :
             (/\ GetArrives(r) /\ cache # Null /\ cache.promotions = <<>>
              /\ (clock - lastCacheUpdate) < CACHE_DURATION)
             => /\ req'[r].pc = "done"
                /\ req'[r].resp = Ok200(<<>>)
                /\ flowCalls' = flowCalls
                /\ cache' = cache]_vars

\* C29 witness: the model answered a GET with prose, the empty list was
\* stored, and a later GET was answered with the empty list from the cache.
C29_Witness ==
    /\ cache # Null /\ cache.promotions = <<>>
    /\ flowCalls = 1
    /\ \E g, h \in Requests :
          /\ g < h
          /\ req[g].kind = "GET" /\ req[g].pc = "done" /\ req[g].raw = "prose"
          /\ req[h].kind = "GET" /\ req[h].pc = "done" /\ req[h].raw = "none"
          /\ req[h].resp = Ok200(<<>>)
          /\ req[h].now > req[g].now

(***************************************************************************)
(*            FreeAIService.generateText  (the provider chain)             *)
(***************************************************************************)

\* free-ai-service.ts holds two definitions of the class. The first
\* ("forcedMock") returns generateMockResponse(prompt) at once, its chain
\* commented out, and carries the keyword-driven generateMockResponse; the
\* second ("chain") tries Groq, then OpenRouter, then its own
\* generateMockResponse, which is a stub. Which one is compiled in is not
\* decided by the source, so both are possible.
Builds == {"forcedMock", "chain"}

\* const freeModels = [ ...three models... ]
freeModels == <<"google/gemma-7b-it:free", "huggingfaceh4/zephyr-7b-beta:free",
                "meta-llama/llama-3.1-8b-instruct:free">>

\* What a backend may answer to a fetch:
\*   neterr       fetch rejects (transport error)
\*   http         a response with !response.ok
\*   badbody      response.ok, but the body has no choices array
\*   absent       response.ok, choices[0]?.message?.content is undefined
\*   ok           response.ok with the content given ("" empty, " " blank)
Contents == {"", " ", "text A", "text B"}
Responses ==
    {[kind |-> k, content |-> ""] : k \in {"neterr", "http", "badbody", "absent"}}
    \cup {[kind |-> "ok", content |-> c] : c \in Contents}

\* JavaScript truthiness of a string, and String.prototype.trim on the contents
\* above.
Truthy(str) == str # ""
TrimContent(str) == IF str = " " THEN "" ELSE str

Thrown == [threw |-> TRUE, value |-> ""]
Returned(str) == [threw |-> FALSE, value |-> str]

\* tryGroq: const apiKey = process.env.GROQ_API_KEY; if (!apiKey) throw ...
GroqSends(key) == key

\* tryOpenRouter: if (!apiKey) throw new Error('OpenRouter API key not found')
OpenRouterSends(key) == key

\* tryGroq after the fetch: !response.ok throws, a rejected fetch or a body
\* without choices throws (caught and rethrown), otherwise
\* `data.choices[0]?.message?.content || ''`.
tryGroqReturn(resp) ==
    CASE resp.kind \in {"neterr", "http", "badbody"} -> Thrown
      [] resp.kind = "absent" -> Returned("")
      [] OTHER -> Returned(resp.content)

\* (mutant) tryOpenRouter's content test without the trim.
OpenRouterAcceptsUntrimmed(resp) == resp.kind = "ok" /\ Truthy(resp.content)

\* (mutant) generateText without the try/catch around tryGroq.
AfterGroqNoCatch(o) ==
    IF o.threw THEN "throw" ELSE IF Truthy(o.value) THEN "return" ELSE "next"

\* generateText around tryGroq: try { result = await tryGroq(); if (result)
\* return result } catch { log }.
AfterGroq(o) ==
    IF o.threw THEN "next" ELSE IF Truthy(o.value) THEN "return" ELSE "next"

\* tryOpenRouter, one model: response.ok and
\* `content && content.trim().length > 0` returns the content; everything
\* else, exceptions included, goes on to the next model.
OpenRouterAccepts(resp) ==
    resp.kind = "ok" /\ Truthy(resp.content) /\ Truthy(TrimContent(resp.content))

\* ---- the prompts ------------------------------------------------------

\* The substrings generateMockResponse looks for (prompt.includes).
SuggestMarks   == {"suggest", "completions", "autocomplete", "User Input: \""}
ProductMarks   == {"products", "store products", "Store:"}
PromotionMarks == {"promotions", "promotion", "South African grocery app"}
EstimateMarks  == {"price estimates", "shopping list", "Store"}

\* What the caller's own text (query, store name, list text) may contain.
UserMarks == {{}, {"suggest"}, {"promotion"}, {"Store:", "Store"}}

\* The detection substrings contained in the fixed text of each createPrompt.
\*   suggestions: "...suggest 8 likely completions...", "autocomplete agent for
\*                a shopping list app", 'User Input: "${query}"'
\*   products:    "...branded grocery products available at ${storeName}"
\*   promotions:  "promotions manager for a South African grocery app",
\*                "Ritebrand products", '"store": "Store Name"'
\*   import:      'Parse these grocery items: "${text}"' (none)
TemplateMarks(endpoint) ==
    CASE endpoint = "suggestions" ->
             {"suggest", "completions", "autocomplete", "User Input: \"", "shopping list"}
      [] endpoint = "products" -> {"products"}
      [] endpoint = "promotions" ->
             {"products", "promotions", "promotion", "South African grocery app", "Store"}
      [] OTHER -> {}

\* createPrompt: the fixed text with the caller's text spliced in (the
\* promotions prompt takes no input).
createPrompt(endpoint, user) ==
    [endpoint |-> endpoint,
     marks |-> TemplateMarks(endpoint) \cup (IF endpoint = "promotions" THEN {} ELSE user)]

Endpoints == {"suggestions", "products", "promotions", "import"}

Payload(kind) == [type |-> "string", text |-> kind]

\* The first definition of generateMockResponse: the branches in source order.
generateMockResponse(p) ==
    CASE p.marks \cap SuggestMarks # {}   -> Payload("suggestions")
      [] p.marks \cap ProductMarks # {}   -> Payload("products")
      [] p.marks \cap PromotionMarks # {} -> Payload("promotions")
      [] p.marks \cap EstimateMarks # {}  -> Payload("stores")
      [] OTHER                            -> Payload("generic")

\* The second definition of generateMockResponse: the placeholder only.
generateMockResponseStub(p) == Payload("generic")

\* this.generateMockResponse in the class that is compiled in.
MockOf(b, p) ==
    IF b = "forcedMock" THEN generateMockResponse(p) ELSE generateMockResponseStub(p)

\* ---- the steps --------------------------------------------------------

Entry(to, model, resp) == [to |-> to, model |-> model, resp |-> resp]
OpenRouterTried == Len(SelectSeq(sent, LAMBDA e : e.to = "openrouter"))

Finish(text, by) ==
    /\ result' = text
    /\ via' = by
    /\ tpc' = "done"

\* First definition: `return this.generateMockResponse(prompt);`
ForcedMock ==
    /\ build = "forcedMock" /\ tpc = "start"
    /\ Finish(MockOf(build, prompt), "mock")
    /\ UNCHANGED <<build, groqKey, orKey, prompt, sent>>

\* tryGroq and what generateText does with its outcome.
TryGroq(resp) ==
    /\ build = "chain" /\ tpc = "start"
    /\ LET o == IF GroqSends(groqKey) THEN tryGroqReturn(resp) ELSE Thrown
           a == AfterGroq(o)
       IN /\ sent' = IF GroqSends(groqKey)
                     THEN Append(sent, Entry("groq", "llama-3.1-8b-instant", resp))
                     ELSE sent
          /\ CASE a = "return" -> Finish([type |-> "string", text |-> o.value], "groq")
               [] a = "throw"  -> Finish(Null, "threw")
               [] OTHER        -> tpc' = "openrouter" /\ UNCHANGED <<result, via>>
    /\ UNCHANGED <<build, groqKey, orKey, prompt>>

\* tryOpenRouter without a key: throws before any fetch; generateText catches.
OpenRouterNoKey ==
    /\ tpc = "openrouter"
    /\ ~OpenRouterSends(orKey)
    /\ tpc' = "mock"
    /\ UNCHANGED <<build, groqKey, orKey, prompt, sent, result, via>>

\* tryOpenRouter, one turn of `for (const model of freeModels)`; after the last
\* model it throws 'All OpenRouter models failed', which generateText catches.
TryOpenRouterModel(resp) ==
    /\ tpc = "openrouter"
    /\ OpenRouterSends(orKey)
    /\ OpenRouterTried < Len(freeModels)
    /\ LET i == OpenRouterTried + 1 IN
         /\ sent' = Append(sent, Entry("openrouter", freeModels[i], resp))
         /\ IF OpenRouterAccepts(resp)
            THEN Finish([type |-> "string", text |-> resp.content], "openrouter")
            ELSE /\ tpc' = IF i = Len(freeModels) THEN "mock" ELSE "openrouter"
                 /\ UNCHANGED <<result, via>>
    /\ UNCHANGED <<build, groqKey, orKey, prompt>>

\* `return this.generateMockResponse(prompt);` at the end of the chain.
MockFallback ==
    /\ tpc = "mock"
    /\ Finish(MockOf(build, prompt), "mock")
    /\ UNCHANGED <<build, groqKey, orKey, prompt, sent>>

TextInit ==
    /\ build \in Builds
    /\ groqKey \in BOOLEAN
    /\ orKey \in BOOLEAN
    /\ prompt \in {createPrompt(e, u) : e \in Endpoints, u \in UserMarks}
    /\ tpc = "start"
    /\ sent = <<>>
    /\ result = Null
    /\ via = "none"

TextNext ==
    \/ ForcedMock /\ UNCHANGED <<cacheVars, sugVars, prodVars, promoVars, imgVars, icVars, callVars, estVars>>
    \/ \E resp \in Responses : TryGroq(resp) /\ UNCHANGED <<cacheVars, sugVars, prodVars, promoVars, imgVars, icVars, callVars, estVars>>
    \/ OpenRouterNoKey /\ UNCHANGED <<cacheVars, sugVars, prodVars, promoVars, imgVars, icVars, callVars, estVars>>
    \/ \E resp \in Responses :
          TryOpenRouterModel(resp) /\ UNCHANGED <<cacheVars, sugVars, prodVars, promoVars, imgVars, icVars, callVars, estVars>>
    \/ MockFallback /\ UNCHANGED <<cacheVars, sugVars, prodVars, promoVars, imgVars, icVars, callVars, estVars>>

InitText == TextInit /\ CacheIdle /\ SugIdle /\ ProdIdle /\ PromoIdle /\ ImagesIdle /\ ImageCacheIdle /\ CallIdle /\ EstimatesIdle

SpecText == InitText /\ [][TextNext]_vars

(***************************************************************************)
(* Claims about generateText, checked under SpecText.                      *)
(***************************************************************************)

\* A request that was answered with content generateText can return: a success
\* status and a non-empty content (for OpenRouter, non-empty once trimmed,
\* which is how tryOpenRouter tests it).
Usable(e) ==
    /\ e.resp.kind = "ok"
    /\ e.resp.content # ""
    /\ (e.to = "openrouter" => TrimContent(e.resp.content) # "")

\* The primary failed: it has no key, or it was asked and gave nothing usable.
GroqFailed ==
    \/ ~groqKey
    \/ \E i \in DOMAIN sent : sent[i].to = "groq" /\ ~Usable(sent[i])

\* The secondary failed: it has no key, or every model was asked and none gave
\* anything usable.
OpenRouterFailed ==
    \/ ~orKey
    \/ \A m \in DOMAIN freeModels :
          \E i \in DOMAIN sent :
              sent[i].to = "openrouter" /\ sent[i].model = freeModels[m] /\ ~Usable(sent[i])

\* The order of the chain, as the claim states it.
ProviderOrder ==
    /\ \A i \in DOMAIN sent :
          Usable(sent[i])
          => /\ i = Len(sent)
             /\ tpc = "done"
             /\ via = sent[i].to
             /\ result = [type |-> "string", text |-> sent[i].resp.content]
    /\ \A i \in DOMAIN sent : sent[i].to = "groq" => i = 1
    /\ \A i \in DOMAIN sent : sent[i].to = "openrouter" => GroqFailed
    /\ (tpc = "done" /\ via = "mock") => (GroqFailed /\ OpenRouterFailed)
    /\ (tpc = "done" /\ via \in {"groq", "openrouter"})
          => (sent # <<>> /\ Usable(sent[Len(sent)]))

\* C1 (as claimed): generateText asks Groq, then OpenRouter, then takes the
\* synthetic fallback; the first usable content is the result and nothing is
\* asked after it; OpenRouter is asked only after Groq failed, and the
\* fallback is used only after both failed.
C1_ProviderOrder == ProviderOrder

\* What holds of the second definition of generateText alone (not claim C1).
ChainProviderOrder == build = "chain" => ProviderOrder

\* The outcomes the claim names as failures of a provider.
ClaimedFailure(resp) ==
    \/ resp.kind \in {"neterr", "http", "badbody", "absent"}
    \/ (resp.kind = "ok" /\ resp.content = "")

\* C2: whatever the providers do (key absent, transport error, non-2xx status,
\* empty or absent content) generateText resolves to a string and never
\* throws; no request goes to a backend whose key is absent; and each of the
\* failures only moves the chain on: after a failed Groq request OpenRouter is
\* next (or, without its key, the fallback), after a failed OpenRouter request
\* the next model or, after the last, the fallback.
C2_AlwaysAString ==
    /\ tpc = "done" => (via \in {"groq", "openrouter", "mock"} /\ result # Null
                        /\ result.type = "string")
    /\ ~groqKey => \A i \in DOMAIN sent : sent[i].to # "groq"
    /\ ~orKey => \A i \in DOMAIN sent : sent[i].to # "openrouter"
    /\ \A i \in DOMAIN sent :
          (ClaimedFailure(sent[i].resp) /\ i = Len(sent))
          => /\ tpc \in {"openrouter", "mock"} \/ (tpc = "done" /\ via = "mock")
             /\ (sent[i].to = "groq" /\ orKey) => tpc = "openrouter"
             /\ (sent[i].to = "openrouter" /\ sent[i].model # freeModels[Len(freeModels)])
                   => tpc = "openrouter"
             /\ (sent[i].to = "openrouter" /\ sent[i].model = freeModels[Len(freeModels)])
                   => tpc # "openrouter"

\* C2 witness: Groq has no key and was not asked, the three OpenRouter models
\* failed in three different ways, and generateText still resolved to a string.
C2_Witness ==
    /\ tpc = "done" /\ via = "mock" /\ result.type = "string"
    /\ ~groqKey /\ orKey
    /\ Len(sent) = 3
    /\ sent[1].resp.kind = "neterr"
    /\ sent[2].resp.kind = "http"
    /\ sent[3].resp = [kind |-> "ok", content |-> ""]

\* C6 (as claimed): when the synthetic fallback answers, the payload is the one
\* of the endpoint that built the prompt (suggestions, products, promotions),
\* and the generic placeholder is returned only for a prompt in which no
\* domain is recognised.
C6_MockMatchesDomain ==
    (tpc = "done" /\ via = "mock")
    => /\ prompt.endpoint \in {"suggestions", "products", "promotions"}
             => result = Payload(prompt.endpoint)
       /\ result = Payload("generic")
             => prompt.marks \cap (SuggestMarks \cup ProductMarks \cup PromotionMarks
                                   \cup EstimateMarks) = {}

\* What the first definition of generateMockResponse does give the three
\* endpoints when the caller's text holds no detection substring (not claim C6).
KeywordMockOnPlainInput ==
    (tpc = "done" /\ via = "mock" /\ build = "forcedMock"
       /\ prompt.marks = TemplateMarks(prompt.endpoint))
    => result = Payload(CASE prompt.endpoint = "suggestions" -> "suggestions"
                          [] prompt.endpoint = "products" -> "products"
                          [] prompt.endpoint = "promotions" -> "products"
                          [] OTHER -> "generic")

\* The requests tryOpenRouter has sent, in the order it sent them.
OpenRouterSent == SelectSeq(sent, LAMBDA e : e.to = "openrouter")

\* The claim as a function of the answers that count as a model's success.
OpenRouterVariants(successes) ==
    LET tried == OpenRouterSent
    IN /\ Len(tried) <= Len(freeModels)
       /\ \A k \in 1..Len(tried) : tried[k].model = freeModels[k]
       /\ \A k \in 1..Len(tried) :
             tried[k].resp \in successes
             => /\ k = Len(tried)
                /\ tpc = "done" /\ via = "openrouter"
                /\ result = [type |-> "string", text |-> tried[k].resp.content]
       /\ (tpc = "done" /\ via = "openrouter")
             => (tried # <<>> /\ tried[Len(tried)].resp \in successes)
       /\ (orKey /\ tried # <<>> /\ (tpc = "mock" \/ (tpc = "done" /\ via = "mock")))
             => /\ Len(tried) = Len(freeModels)
                /\ \A k \in 1..Len(tried) : tried[k].resp \notin successes

\* The answers with a success status and non-empty content, and those with
\* content that is not empty once trimmed.
NonEmptySuccess == {resp \in Responses : resp.kind = "ok" /\ resp.content # ""}
NonBlankSuccess == {resp \in NonEmptySuccess : resp.content # " "}

\* C20 (as claimed): tryOpenRouter asks its models in the listed order,
\* returns the content of the first that answers with a success status and
\* non-empty content, asks no model after it, and fails only after every model
\* was asked and none answered so.
C20_FirstNonEmptyReturned == OpenRouterVariants(NonEmptySuccess)

\* C20 (amended): the same with "non-empty" read as "not empty once trimmed":
\* a success status with whitespace-only content counts as a failed model.
C20_FirstNonBlankReturned == OpenRouterVariants(NonBlankSuccess)

\* C20 witness: the first model failed with an HTTP error, the second answered
\* with whitespace only, the third answered with a text, which was returned.
C20_Witness ==
    /\ tpc = "done" /\ via = "openrouter"
    /\ Len(OpenRouterSent) = 3
    /\ OpenRouterSent[1].resp.kind = "http"
    /\ OpenRouterSent[2].resp = [kind |-> "ok", content |-> " "]
    /\ OpenRouterSent[3].resp = [kind |-> "ok", content |-> "text A"]
    /\ result = [type |-> "string", text |-> "text A"]

(***************************************************************************)
(*     suggest-item-completions/route.ts: validateAndProcessSuggestions    *)
(***************************************************************************)

\* Strings are sequences of characters; a JSON value of the model's list is a
\* string, or something that is no string (a number, null).
Str(chars) == [t |-> "string", s |-> chars]
NotAString(t) == [t |-> t, s |-> <<>>]

\* .slice(0, 8)
MaxSuggestions == 8

\* String.prototype.toUpperCase on one character.
ToUpperCase(c) ==
    CASE c = "a" -> "A" [] c = "b" -> "B" [] c = "d" -> "D" [] c = "e" -> "E"
      [] c = "g" -> "G" [] c = "i" -> "I" [] c = "k" -> "K" [] c = "l" -> "L"
      [] c = "m" -> "M" [] c = "r" -> "R" [] c = "s" -> "S" [] c = "c" -> "C"
      [] OTHER -> c

RECURSIVE TrimStart(_)
TrimStart(s) == IF s # <<>> /\ Head(s) = " " THEN TrimStart(Tail(s)) ELSE s

RECURSIVE TrimEnd(_)
TrimEnd(s) ==
    IF s # <<>> /\ s[Len(s)] = " " THEN TrimEnd(SubSeq(s, 1, Len(s) - 1)) ELSE s

\* String.prototype.trim
Trim(s) == TrimEnd(TrimStart(s))

\* typeof suggestion === 'string' && suggestion.trim().length > 0
IsSuggestion(v) == v.t = "string" /\ Len(Trim(v.s)) > 0

\* (mutant) the capitalisation without the trim.
CapitalizeUntrimmed(s) == <<ToUpperCase(Head(s))>> \o Tail(s)

\* suggestion.trim().charAt(0).toUpperCase() + suggestion.trim().slice(1)
Capitalize(s) == <<ToUpperCase(Head(Trim(s)))>> \o Tail(Trim(s))

\* Array.prototype.indexOf (1-based here): the first position holding x.
IndexOf(seq, x) ==
    CHOOSE i \in 1..Len(seq) : seq[i] = x /\ \A j \in 1..(i - 1) : seq[j] # x

\* .filter((s, index, array) => array.indexOf(s) === index)
RECURSIVE KeepFirst(_, _)
KeepFirst(seq, i) ==
    IF i > Len(seq) THEN <<>>
    ELSE (IF IndexOf(seq, seq[i]) = i THEN <<seq[i]>> ELSE <<>>) \o KeepFirst(seq, i + 1)

RemoveDuplicates(seq) == KeepFirst(seq, 1)

\* .slice(0, n)
Slice(seq, n) == SubSeq(seq, 1, IF Len(seq) < n THEN Len(seq) ELSE n)

MapCapitalize(seq) == [i \in 1..Len(seq) |-> Capitalize(seq[i].s)]

Threw == [threw |-> TRUE, suggestions |-> <<>>]
Gave(list) == [threw |-> FALSE, suggestions |-> list]

\* (mutant) the truncation before the removal of duplicates.
validateSliceFirst(payload) ==
    IF payload = Null THEN Threw
    ELSE IF payload.suggestions.t # "array" THEN Gave(<<>>)
    ELSE Gave(RemoveDuplicates(Slice(
             MapCapitalize(SelectSeq(payload.suggestions.items, IsSuggestion)),
             MaxSuggestions)))

\* validateAndProcessSuggestions(result): on a null payload `result.suggestions`
\* throws; a missing or non-array field gives []; otherwise filter, capitalise,
\* remove duplicates, slice.
validateAndProcessSuggestions(payload) ==
    IF payload = Null THEN Threw
    ELSE IF payload.suggestions.t # "array" THEN Gave(<<>>)
    ELSE Gave(Slice(RemoveDuplicates(
             MapCapitalize(SelectSeq(payload.suggestions.items, IsSuggestion))),
             MaxSuggestions))

\* ---- the payloads the check runs over ----------------------------------

milk  == <<"m", "i", "l", "k">>
bread == <<"b", "r", "e", "a", "d">>
eggs  == <<"e", "g", "g", "s">>

\* What the model may put in the list: the same item in several spellings,
\* empty and blank strings, and a value that is no string.
SuggestionPool ==
    {Str(milk), Str(<<"M", "i", "l", "k">>), Str(<<" ", "m", "i", "l", "k", " ">>),
     Str(bread), Str(eggs), Str(<<>>), Str(<<" ">>), NotAString("number")}

\* Ten suggestions that stay pairwise different once capitalised.
DistinctSuggestions ==
    <<Str(eggs), Str(<<"r", "i", "c", "e">>), Str(<<"a">>), Str(<<"b">>), Str(<<"d">>),
      Str(<<"e">>), Str(<<"g">>), Str(<<"i">>), Str(<<"k">>), Str(<<"l">>)>>

MaxMixed == 3

RECURSIVE SeqsUpTo(_, _)
SeqsUpTo(S, n) ==
    IF n = 0 THEN {<<>>}
    ELSE LET shorter == SeqsUpTo(S, n - 1) IN
         shorter \cup {Append(q, x) : q \in shorter, x \in S}

\* A mixed part of up to MaxMixed pool values before or after a run of
\* distinct suggestions.
SuggestionList(mixed, run, mixedFirst) ==
    IF mixedFirst THEN mixed \o SubSeq(DistinctSuggestions, 1, run)
    ELSE SubSeq(DistinctSuggestions, 1, run) \o mixed

\* The parsed payloads without a list: null, no suggestions field, a
\* suggestions field that is no array.
SuggestionPayloads ==
    {Null, [suggestions |-> [t |-> "absent", items |-> <<>>]],
           [suggestions |-> [t |-> "string", items |-> <<>>]]}

ValidateSuggestions ==
    /\ spc = "parsed"
    /\ sugOut' = validateAndProcessSuggestions(sugIn)
    /\ spc' = "done"
    /\ UNCHANGED sugIn

SugInit ==
    /\ \/ sugIn \in SuggestionPayloads
       \/ \E mixed \in SeqsUpTo(SuggestionPool, MaxMixed),
             run \in 0..Len(DistinctSuggestions), mixedFirst \in BOOLEAN :
              sugIn = [suggestions |->
                          [t |-> "array", items |-> SuggestionList(mixed, run, mixedFirst)]]
    /\ sugOut = Null
    /\ spc = "parsed"

InitSuggest == SugInit /\ CacheIdle /\ TextIdle /\ ProdIdle /\ PromoIdle /\ ImagesIdle /\ ImageCacheIdle /\ CallIdle /\ EstimatesIdle

NextSuggest == ValidateSuggestions /\ UNCHANGED <<cacheVars, textVars, prodVars, promoVars, imgVars, icVars, callVars, estVars>>

SpecSuggest == InitSuggest /\ [][NextSuggest]_vars

(***************************************************************************)
(* Claims about the suggestion list, checked under SpecSuggest.            *)
(***************************************************************************)

SugReturned == spc = "done" /\ ~sugOut.threw
SugItems == IF sugIn # Null /\ sugIn.suggestions.t = "array"
            THEN sugIn.suggestions.items ELSE <<>>

\* core is s without its leading and trailing blanks, and is not empty.
IsTrimOf(core, s) ==
    /\ core # <<>> /\ core[1] # " " /\ core[Len(core)] # " "
    /\ \E a \in 0..Len(s) :
          /\ a + Len(core) <= Len(s)
          /\ SubSeq(s, a + 1, a + Len(core)) = core
          /\ \A k \in 1..Len(s) : (k <= a \/ k > a + Len(core)) => s[k] = " "

\* entry is s trimmed, with its first character in upper case.
IsCapitalizedTrimOf(entry, s) ==
    /\ entry # <<>>
    /\ \E c \in {s[k] : k \in 1..Len(s)} :
          /\ entry[1] = ToUpperCase(c)
          /\ IsTrimOf(<<c>> \o Tail(entry), s)

\* C7: the returned list has at most 8 entries, they are pairwise different,
\* none is empty or starts or ends with a blank, and each is a string of the
\* model's list, trimmed, with its first character in upper case.
C7_SuggestionList ==
    SugReturned
    => LET out == sugOut.suggestions IN
         /\ Len(out) <= 8
         /\ \A i, j \in 1..Len(out) : i # j => out[i] # out[j]
         /\ \A i \in 1..Len(out) :
               /\ out[i] # <<>>
               /\ out[i][1] # " "
               /\ out[i][Len(out[i])] # " "
               /\ \E j \in 1..Len(SugItems) :
                     /\ SugItems[j].t = "string"
                     /\ IsCapitalizedTrimOf(out[i], SugItems[j].s)

\* C7 witness: a list of more than 8 values, with a non-string, a blank string
\* and a padded string among them, was cut down to 8 entries.
C7_Witness ==
    /\ SugReturned
    /\ Len(sugOut.suggestions) = 8
    /\ Len(SugItems) > 8
    /\ \E j \in 1..Len(SugItems) : SugItems[j] = NotAString("number")
    /\ \E j \in 1..Len(SugItems) : SugItems[j] = Str(<<" ">>)
    /\ \E j \in 1..Len(SugItems) : SugItems[j] = Str(<<" ", "m", "i", "l", "k", " ">>)

\* The positions of the model's list that hold a suggestion (a string that is
\* not blank), and those among them that hold the first occurrence of their
\* capitalised form.
Suggested == {j \in 1..Len(SugItems) : IsSuggestion(SugItems[j])}
FirstOccurrences ==
    {j \in Suggested :
        \A h \in Suggested : h < j => Capitalize(SugItems[h].s) # Capitalize(SugItems[j].s)}

\* C8: duplicates are removed after the capitalisation and before the
\* truncation: the result is, in the original order, the capitalised forms at
\* the first 8 first-occurrence positions; [milk, milk, bread] gives
\* [Milk, Bread].
C8_DedupThenTruncate ==
    SugReturned
    => LET out == sugOut.suggestions
           first == FirstOccurrences
       IN
         /\ Len(out) = (IF Cardinality(first) < 8 THEN Cardinality(first) ELSE 8)
         /\ \A n \in 1..Len(out) :
               \E j \in first :
                   /\ Cardinality({h \in first : h < j}) = n - 1
                   /\ out[n] = Capitalize(SugItems[j].s)
         /\ (SugItems = <<Str(milk), Str(milk), Str(bread)>>
               => out = <<<<"M", "i", "l", "k">>, <<"B", "r", "e", "a", "d">>>>)

\* C8 witness: milk and Milk both occur among the first 8 values of a list with
\* more than 8 different suggestions; Milk is kept once and 8 entries come back.
C8_Witness ==
    /\ SugReturned
    /\ Len(sugOut.suggestions) = 8
    /\ Cardinality(FirstOccurrences) > 8
    /\ \E i, j \in 1..8 :
          /\ i < j /\ j <= Len(SugItems)
          /\ SugItems[i] = Str(milk)
          /\ SugItems[j] = Str(<<"M", "i", "l", "k">>)
    /\ Cardinality({n \in 1..8 : sugOut.suggestions[n] = <<"M", "i", "l", "k">>}) = 1

(***************************************************************************)
(*            get-store-products/route.ts: validateProducts                *)
(***************************************************************************)

\* A field of an element of the model's product list. A string is a label and
\* a number (the text "item 3" is [s |-> "item", n |-> 3], the empty string
\* [s |-> "", n |-> 0]); a number carries its value in n.
Text(label, n) == [t |-> "string", s |-> label, n |-> n]
EmptyText == Text("", 0)
Number(n) == [t |-> "number", s |-> "", n |-> n]
Undefined == [t |-> "undefined", s |-> "", n |-> 0]

\* .slice(0, 10)
MaxProducts == 10

\* JavaScript truthiness of a field: undefined, "" and 0 are falsy.
TruthyField(v) ==
    CASE v.t = "undefined" -> FALSE
      [] v.t = "string" -> v # EmptyText
      [] v.t = "number" -> v.n # 0
      [] OTHER -> TRUE

\* a || b
OrElse(v, default) == IF TruthyField(v) THEN v ELSE default

\* The filter: product && typeof product.name === 'string' &&
\* typeof product.price === 'string' && typeof product.dataAiHint === 'string'
PassesAnchors(e) ==
    /\ e # Null
    /\ e.name.t = "string"
    /\ e.price.t = "string"
    /\ e.dataAiHint.t = "string"

\* id: typeof product.id === 'number' ? product.id : index + 1   (index 0-based)
ProductId(e, index) == IF e.id.t = "number" THEN e.id.n ELSE index + 1

\* The map callback.
CoerceProduct(e, index) ==
    [id |-> ProductId(e, index),
     name |-> OrElse(e.name, Text("Product", index + 1)),
     price |-> OrElse(e.price, Text("R 0.00", 0)),
     onSpecial |-> TruthyField(e.onSpecial),
     originalPrice |-> OrElse(e.originalPrice, Undefined),
     image |-> Text("placeholder", 0),
     dataAiHint |-> OrElse(e.dataAiHint, Text("grocery item", 0))]

MapCoerce(seq) == [i \in 1..Len(seq) |-> CoerceProduct(seq[i], i - 1)]

\* (mutant) the truncation before the filter.
validateSliceFirstProducts(products) ==
    IF products.t # "array" THEN <<>>
    ELSE MapCoerce(SelectSeq(Slice(products.items, MaxProducts), PassesAnchors))

\* validateProducts(products): [] unless an array; filter, map, slice(0, 10).
validateProducts(products) ==
    IF products.t # "array" THEN <<>>
    ELSE Slice(MapCoerce(SelectSeq(products.items, PassesAnchors)), MaxProducts)

\* ---- the lists the check runs over --------------------------------------

\* The ids the model may supply.
ModelIds == {0, 1, 2}

ElementKinds ==
    {[k |-> kind, id |-> 0] :
        kind \in {"plain", "textId", "emptyName", "noName", "numberPrice", "null"}}
    \cup {[k |-> "id", id |-> n] : n \in ModelIds}

Plain == [k |-> "plain", id |-> 0]

\* The element of the given kind at position i of the model's list; its name,
\* price and hint carry the position.
Element(kind, i) ==
    LET plain == [id |-> Undefined, name |-> Text("item", i), price |-> Text("R", i),
                  dataAiHint |-> Text("hint", i), onSpecial |-> Undefined,
                  originalPrice |-> Undefined]
    IN CASE kind.k = "plain" -> plain
         [] kind.k = "textId" -> [plain EXCEPT !.id = Text("7", 0)]
         [] kind.k = "emptyName" -> [plain EXCEPT !.name = EmptyText]
         [] kind.k = "noName" -> [plain EXCEPT !.name = Undefined]
         [] kind.k = "numberPrice" -> [plain EXCEPT !.price = Number(i)]
         [] kind.k = "null" -> Null
         [] OTHER -> [plain EXCEPT !.id = Number(kind.id), !.onSpecial = Number(1),
                                   !.originalPrice = Text("R was", i)]

MaxRun == 11
MaxTail == 2
MaxMixedProducts == 2

\* A run of plain elements, then up to MaxMixedProducts elements of any kind,
\* then a short run of plain elements.
ProductKindLists ==
    {[i \in 1..k1 |-> Plain] \o m \o [i \in 1..k2 |-> Plain] :
        k1 \in 0..MaxRun, m \in SeqsUpTo(ElementKinds, MaxMixedProducts), k2 \in 0..MaxTail}

ProductLists ==
    {[t |-> "array", items |-> [i \in 1..Len(kinds) |-> Element(kinds[i], i)]] :
        kinds \in ProductKindLists}
    \cup {[t |-> "object", items |-> <<>>]}

ValidateProducts ==
    /\ ppc = "parsed"
    /\ prodOut' = validateProducts(prodIn)
    /\ ppc' = "done"
    /\ UNCHANGED prodIn

ProdInit ==
    /\ prodIn \in ProductLists
    /\ prodOut = <<>>
    /\ ppc = "parsed"

InitProducts == ProdInit /\ CacheIdle /\ TextIdle /\ SugIdle /\ PromoIdle /\ ImagesIdle /\ ImageCacheIdle /\ CallIdle /\ EstimatesIdle

NextProducts == ValidateProducts /\ UNCHANGED <<cacheVars, textVars, sugVars, promoVars, imgVars, icVars, callVars, estVars>>

SpecProducts == InitProducts /\ [][NextProducts]_vars

(***************************************************************************)
(* Claims about the product list, checked under SpecProducts.              *)
(***************************************************************************)

\* The positions of the model's list whose element passes the anchor checks:
\* an object whose name, price and dataAiHint are strings.
ValidPositions ==
    {i \in 1..Len(prodIn.items) :
        /\ prodIn.items[i] # Null
        /\ \A f \in {"name", "price", "dataAiHint"} : prodIn.items[i][f].t = "string"}

\* The returned product o is the model's element e (its price and hint, and
\* its name unless that was empty).
IsProductOf(o, e) ==
    /\ o.price = e.price
    /\ o.dataAiHint = e.dataAiHint
    /\ (e.name # EmptyText => o.name = e.name)

\* C9: of more than 10 elements that pass the anchor checks exactly the first
\* 10 are returned, in their original order; never more than 10 are returned.
C9_FirstTenValid ==
    ppc = "done"
    => /\ Len(prodOut) <= 10
       /\ Cardinality(ValidPositions) > 10
             => /\ Len(prodOut) = 10
                /\ \A n \in 1..10 :
                      \E j \in ValidPositions :
                          /\ Cardinality({h \in ValidPositions : h < j}) = n - 1
                          /\ IsProductOf(prodOut[n], prodIn.items[j])

\* C9 witness: more than 10 valid elements with an invalid one among the first
\* 10 positions; 10 products came back.
C9_Witness ==
    /\ ppc = "done"
    /\ Cardinality(ValidPositions) > 10
    /\ \E i \in 1..10 : i \notin ValidPositions
    /\ Len(prodOut) = 10

\* C10 (as claimed): the ids of the returned products are positive integers,
\* pairwise different within the list.
C10_UniquePositiveIds ==
    ppc = "done"
    => /\ \A i \in 1..Len(prodOut) : prodOut[i].id \in Nat \ {0}
       /\ \A i, j \in 1..Len(prodOut) : i # j => prodOut[i].id # prodOut[j].id

\* C10 (as claimed), for positive ids only: the model gives some elements a
\* positive id and leaves it out of others; the ids returned are still
\* pairwise different.
C10_UniqueIdsWhenPositive ==
    (ppc = "done" /\ \A i \in 1..Len(prodOut) : prodOut[i].id > 0)
    => \A i, j \in 1..Len(prodOut) : i # j => prodOut[i].id # prodOut[j].id

\* What the code does guarantee (not claim C10): an element without a numeric
\* id gets its 1-based position among the surviving elements.
IdDefaultsToPosition ==
    ppc = "done"
    => \A n \in 1..Len(prodOut) :
          \A j \in ValidPositions :
              (Cardinality({h \in ValidPositions : h < j}) = n - 1
                 /\ prodIn.items[j].id.t # "number")
              => prodOut[n].id = n

(***************************************************************************)
(*     get-current-promotions/route.ts: processPromotionsWithImages        *)
(***************************************************************************)

\* The image table, shortened to ten of its keys, in the order of the source;
\* the value is the number of the Pexels photo of the URL.
imageMap ==
    <<[key |-> "coffee", photo |-> "312418"], [key |-> "juice", photo |-> "1304548"],
      [key |-> "rice", photo |-> "2098135"], [key |-> "milk", photo |-> "248412"],
      [key |-> "butter", photo |-> "3311336"], [key |-> "dairy", photo |-> "248412"],
      [key |-> "chicken", photo |-> "65175"], [key |-> "household", photo |-> "545014"],
      [key |-> "bread", photo |-> "1775043"], [key |-> "tiger brands", photo |-> "1775043"],
      [key |-> "grocery", photo |-> "3962286"]>>

\* The ultimate fallback URL.
GroceryFallback == "3962286"

\* const specificKeywords = ['chicken', 'milk', 'yogurt', 'butter', ...]
specificKeywords ==
    {"chicken", "milk", "yogurt", "butter", "coffee", "juice", "cereal", "rice",
     "detergent", "bread"}

\* Names every object inherits from Object.prototype: imageMap[word] finds
\* them though the table does not list them.
ObjectPrototypeNames == {"constructor", "tostring", "valueof"}

\* The texts the model's promotions are built from: for each its lower-cased
\* form, the table keys and specific keywords that form contains as a
\* substring, and its words (split at white space).
PromoTexts ==
    {[s |-> "Clover Milk 2L", lower |-> "clover milk 2l", has |-> {"milk"},
      words |-> <<"clover", "milk", "2l">>],
     [s |-> "Buttermilk Rusks", lower |-> "buttermilk rusks", has |-> {"butter", "milk"},
      words |-> <<"buttermilk", "rusks">>],
     [s |-> "Constructor Kit", lower |-> "constructor kit", has |-> {},
      words |-> <<"constructor", "kit">>],
     [s |-> "Weekend Deal", lower |-> "weekend deal", has |-> {},
      words |-> <<"weekend", "deal">>],
     [s |-> "Dairy", lower |-> "dairy", has |-> {"dairy"}, words |-> <<"dairy">>],
     [s |-> "Household", lower |-> "household", has |-> {"household"},
      words |-> <<"household">>],
     [s |-> "Tiger Brands Rice Cakes", lower |-> "tiger brands rice cakes",
      has |-> {"rice", "tiger brands"}, words |-> <<"tiger", "brands", "rice", "cakes">>],
     [s |-> "Bread", lower |-> "bread", has |-> {"bread"}, words |-> <<"bread">>],
     [s |-> "", lower |-> "", has |-> {}, words |-> <<>>]}

TextOf(label) == CHOOSE x \in PromoTexts : x.s = label

\* A string field of a promotion.
PromoStr(label) == Text(label, 0)

\* promotion.title?.toLowerCase() || '' : the lower-cased text; the empty text
\* for a missing field; a TypeError for a value that is no string.
LowerOrEmpty(v) ==
    CASE v.t = "undefined" -> [threw |-> FALSE, text |-> TextOf("")]
      [] v.t = "string" -> [threw |-> FALSE, text |-> TextOf(v.s)]
      [] OTHER -> [threw |-> TRUE, text |-> TextOf("")]

\* Object.entries(imageMap).filter(([key]) => text.includes(key))
\*    .sort(([a], [b]) => b[0].length - a[0].length)[0]
\* b[0] and a[0] are the first characters of the two keys, so the comparator
\* is always 0 and the stable sort keeps the order of the table: the first
\* key of the table that the text contains, 0 if there is none.
FirstMatch(text) ==
    LET hits == {i \in 1..Len(imageMap) : imageMap[i].key \in text.has}
    IN IF hits = {} THEN 0 ELSE CHOOSE i \in hits : \A j \in hits : i <= j

\* imageMap[word]
Lookup(word) ==
    LET hits == {i \in 1..Len(imageMap) : imageMap[i].key = word}
    IN IF hits # {} THEN [t |-> "string", s |-> imageMap[CHOOSE i \in hits : TRUE].photo, n |-> 0]
       ELSE IF word \in ObjectPrototypeNames THEN [t |-> "function", s |-> word, n |-> 0]
       ELSE Undefined

\* word.length for the words of PromoTexts.
StrLen(word) ==
    CASE word = "2l" -> 2
      [] word = "kit" -> 3
      [] word \in {"deal", "milk", "rice"} -> 4
      [] word \in {"dairy", "rusks", "tiger", "cakes", "bread"} -> 5
      [] word \in {"clover", "brands"} -> 6
      [] word = "weekend" -> 7
      [] word = "household" -> 9
      [] word = "buttermilk" -> 10
      [] word = "constructor" -> 11

\* for (const word of words) if (imageMap[word]) { imageUrl = imageMap[word]; break }
\* over the words of the title longer than 3 characters.
RECURSIVE WordFallback(_)
WordFallback(words) ==
    IF words = <<>> THEN Undefined
    ELSE IF StrLen(Head(words)) > 3 /\ Lookup(Head(words)) # Undefined
         THEN Lookup(Head(words))
         ELSE WordFallback(Tail(words))

Photo(i) == [t |-> "string", s |-> imageMap[i].photo, n |-> 0]

\* The image of one promotion: title, then hint, then category (unless the
\* search text holds a specific keyword), then a word of the title, then the
\* grocery photo.
resolveImage(title, dataAiHint, category) ==
    LET hasSpecificProduct ==
            (title.has \cup dataAiHint.has \cup category.has) \cap specificKeywords # {}
        tier1 == IF FirstMatch(title) # 0 THEN Photo(FirstMatch(title)) ELSE Undefined
        tier2 == IF tier1 = Undefined /\ dataAiHint.lower # "" /\ FirstMatch(dataAiHint) # 0
                 THEN Photo(FirstMatch(dataAiHint)) ELSE tier1
        tier3 == IF tier2 = Undefined /\ category.lower # "" /\ ~hasSpecificProduct
                    /\ FirstMatch(category) # 0
                 THEN Photo(FirstMatch(category)) ELSE tier2
        tier4 == IF tier3 = Undefined THEN WordFallback(title.words) ELSE tier3
    IN IF tier4 = Undefined THEN [t |-> "string", s |-> GroceryFallback, n |-> 0] ELSE tier4

\* getDefaultExpiryDate(): today + 7 days as YYYY-MM-DD.
DefaultExpiryDate == PromoStr("today+7")

\* The map callback of processPromotionsWithImages for the element at the
\* 0-based position index: rejects on a null element and on a title, hint or
\* category that is neither missing nor a string.
processPromotion(promotion, index) ==
    IF promotion = Null THEN [threw |-> TRUE, value |-> Null]
    ELSE LET title == LowerOrEmpty(promotion.title)
             dataAiHint == LowerOrEmpty(promotion.dataAiHint)
             category == LowerOrEmpty(promotion.category)
         IN IF title.threw \/ dataAiHint.threw \/ category.threw
            THEN [threw |-> TRUE, value |-> Null]
            ELSE [threw |-> FALSE,
                  value |->
                     [img |-> resolveImage(title.text, dataAiHint.text, category.text),
                      title |-> OrElse(promotion.title, Text("Special Offer", index + 1)),
                      store |-> OrElse(promotion.store, PromoStr("Supermarket")),
                      dataAiHint |-> OrElse(promotion.dataAiHint, PromoStr(category.text.lower)),
                      category |-> OrElse(promotion.category, PromoStr("General")),
                      discountPercent |-> OrElse(promotion.discountPercent, Undefined),
                      savingsAmount |-> OrElse(promotion.savingsAmount, Undefined),
                      originalPrice |-> OrElse(promotion.originalPrice, Undefined),
                      currentPrice |-> OrElse(promotion.currentPrice, Undefined),
                      promotionType |-> OrElse(promotion.promotionType,
                                               PromoStr("percentage_discount")),
                      validUntil |-> OrElse(promotion.validUntil, DefaultExpiryDate)]]

\* await Promise.all(promotions.map(async ...)): rejects if one callback
\* rejects, otherwise the results in the order of the list.
processPromotionsWithImages(promotions) ==
    LET each == [i \in 1..Len(promotions) |-> processPromotion(promotions[i], i - 1)]
    IN IF \E i \in 1..Len(each) : each[i].threw
       THEN [threw |-> TRUE, promotions |-> <<>>]
       ELSE [threw |-> FALSE, promotions |-> [i \in 1..Len(each) |-> each[i].value]]

\* ---- the promotions the check runs over ---------------------------------

\* A promotion as the prompt asks for it.
GoodPromotion ==
    [title |-> PromoStr("Clover Milk 2L"), store |-> PromoStr("Checkers"),
     dataAiHint |-> PromoStr("Dairy"), category |-> PromoStr("Dairy"),
     discountPercent |-> Number(20), savingsAmount |-> PromoStr("R10"),
     originalPrice |-> PromoStr("R 49.99"), currentPrice |-> PromoStr("R 39.99"),
     promotionType |-> PromoStr("multibuy"), validUntil |-> PromoStr("2025-12-31")]

\* An object without any of the fields.
EmptyPromotion ==
    [title |-> Undefined, store |-> Undefined, dataAiHint |-> Undefined,
     category |-> Undefined, discountPercent |-> Undefined, savingsAmount |-> Undefined,
     originalPrice |-> Undefined, currentPrice |-> Undefined,
     promotionType |-> Undefined, validUntil |-> Undefined]

PromotionPool ==
    {GoodPromotion, EmptyPromotion, Null,
     [GoodPromotion EXCEPT !.store = Number(42)],
     [GoodPromotion EXCEPT !.promotionType = PromoStr("flash_sale")],
     [GoodPromotion EXCEPT !.validUntil = Number(20251231)],
     [GoodPromotion EXCEPT !.title = Number(7)],
     [EmptyPromotion EXCEPT !.title = PromoStr("Constructor Kit")],
     [EmptyPromotion EXCEPT !.title = PromoStr("Weekend Deal"),
                            !.category = PromoStr("Household")],
     [EmptyPromotion EXCEPT !.title = PromoStr("Buttermilk Rusks"),
                            !.category = PromoStr("Household")],
     [EmptyPromotion EXCEPT !.title = PromoStr("Tiger Brands Rice Cakes")],
     [EmptyPromotion EXCEPT !.title = PromoStr("Weekend Deal"),
                            !.category = PromoStr("Bread")]}

MaxPromos == 2

ProcessPromotions ==
    /\ prpc = "parsed"
    /\ promoOut' = processPromotionsWithImages(promoIn)
    /\ prpc' = "done"
    /\ UNCHANGED promoIn

PromoInit ==
    /\ promoIn \in SeqsUpTo(PromotionPool, MaxPromos)
    /\ promoOut = Null
    /\ prpc = "parsed"

InitPromo == PromoInit /\ CacheIdle /\ TextIdle /\ SugIdle /\ ProdIdle /\ ImagesIdle /\ ImageCacheIdle /\ CallIdle /\ EstimatesIdle

NextPromo == ProcessPromotions /\ UNCHANGED <<cacheVars, textVars, sugVars, prodVars, imgVars, icVars, callVars, estVars>>

SpecPromo == InitPromo /\ [][NextPromo]_vars

(***************************************************************************)
(* Claims about the processed promotions, checked under SpecPromo.         *)
(***************************************************************************)

\* key.length for the keys of imageMap.
KeyLen(key) ==
    CASE key \in {"rice", "milk"} -> 4
      [] key \in {"juice", "dairy", "bread"} -> 5
      [] key \in {"coffee", "butter"} -> 6
      [] key \in {"chicken", "grocery"} -> 7
      [] key = "household" -> 9
      [] key = "tiger brands" -> 12

\* The photos of the longest table keys a text contains.
LongestKeyPhotos(text) ==
    {imageMap[i].photo : i \in {i \in 1..Len(imageMap) :
        /\ imageMap[i].key \in text.has
        /\ \A j \in 1..Len(imageMap) :
              imageMap[j].key \in text.has => KeyLen(imageMap[j].key) <= KeyLen(imageMap[i].key)}}

\* The text of a field of a promotion of the request ("" if it is missing).
FieldText(promotion, f) == LowerOrEmpty(promotion[f]).text

PromotionTypes == {"percentage_discount", "multibuy", "price_drop", "bundle"}

PromoReturned == prpc = "done" /\ ~promoOut.threw

\* C11 (as claimed): every promotion handed back has string-valued title,
\* store, category, image and validUntil, and a promotionType that is one of
\* percentage_discount, multibuy, price_drop, bundle.
C11_PromotionShape ==
    PromoReturned
    => \A i \in 1..Len(promoOut.promotions) :
          LET p == promoOut.promotions[i] IN
            /\ \A f \in {"title", "store", "category", "img", "validUntil"} : p[f].t = "string"
            /\ p.promotionType.t = "string"
            /\ p.promotionType.s \in PromotionTypes

\* C24 (as claimed): the image of a returned promotion is that of the longest
\* table keyword its title contains, or, if the title contains none, that of
\* the longest table keyword its hint contains.
C24_LongestKeywordWins ==
    PromoReturned
    => \A i \in 1..Len(promoIn) :
          LET title == FieldText(promoIn[i], "title")
              dataAiHint == FieldText(promoIn[i], "dataAiHint")
              img == promoOut.promotions[i].img.s
          IN /\ FirstMatch(title) # 0 => img \in LongestKeyPhotos(title)
             /\ FirstMatch(title) = 0 /\ FirstMatch(dataAiHint) # 0
                   => img \in LongestKeyPhotos(dataAiHint)

\* What the code does (not claim C24): the image is that of the first key of
\* the table that the title contains, whatever its length.
FirstTableKeywordWins ==
    PromoReturned
    => \A i \in 1..Len(promoIn) :
          LET title == FieldText(promoIn[i], "title")
          IN FirstMatch(title) # 0
               => promoOut.promotions[i].img.s = imageMap[FirstMatch(title)].photo

\* C25 (as claimed): when neither title nor hint contains a table keyword and
\* the title contains no specific-product keyword, a category that contains a
\* table keyword resolves to the image of a keyword it contains.
C25_CategoryResolves ==
    PromoReturned
    => \A i \in 1..Len(promoIn) :
          LET title == FieldText(promoIn[i], "title")
              dataAiHint == FieldText(promoIn[i], "dataAiHint")
              category == FieldText(promoIn[i], "category")
          IN (/\ FirstMatch(title) = 0
              /\ FirstMatch(dataAiHint) = 0
              /\ title.has \cap specificKeywords = {}
              /\ FirstMatch(category) # 0)
             => promoOut.promotions[i].img.s
                   \in {imageMap[k].photo : k \in {k \in 1..Len(imageMap) :
                                                     imageMap[k].key \in category.has}}

\* What the code does (not claim C25): the category resolves unless title,
\* hint or the category itself contains a specific-product keyword.
CategoryResolvesUnlessSpecific ==
    PromoReturned
    => \A i \in 1..Len(promoIn) :
          LET title == FieldText(promoIn[i], "title")
              dataAiHint == FieldText(promoIn[i], "dataAiHint")
              category == FieldText(promoIn[i], "category")
          IN (/\ FirstMatch(title) = 0
              /\ FirstMatch(dataAiHint) = 0
              /\ FirstMatch(category) # 0)
             => IF category.has \cap specificKeywords = {}
                THEN promoOut.promotions[i].img.s = imageMap[FirstMatch(category)].photo
                ELSE promoOut.promotions[i].img.s = GroceryFallback

\* C21 (as claimed): processing a list of promotions never throws, whatever
\* its elements are: it returns a list with one promotion per element that is
\* an object.
C21_CoercionTotal ==
    prpc = "done"
    => /\ ~promoOut.threw
       /\ Len(promoOut.promotions) >= Cardinality({i \in 1..Len(promoIn) : promoIn[i] # Null})

\* What the code does (not claim C21): the whole call rejects as soon as one
\* element is null or has a title, hint or category that is neither missing
\* nor a string; otherwise every element gives one promotion.
RejectsOnOneBadElement ==
    prpc = "done"
    => IF \E i \in 1..Len(promoIn) :
             \/ promoIn[i] = Null
             \/ \E f \in {"title", "dataAiHint", "category"} :
                   promoIn[i][f].t \notin {"undefined", "string"}
       THEN promoOut.threw /\ promoOut.promotions = <<>>
       ELSE ~promoOut.threw /\ Len(promoOut.promotions) = Len(promoIn)

\* What the code does guarantee (not claim C11): title, category and
\* dataAiHint of a returned promotion are strings.
PromotionTextsAreStrings ==
    PromoReturned
    => \A i \in 1..Len(promoOut.promotions) :
          \A f \in {"title", "category", "dataAiHint"} :
              promoOut.promotions[i][f].t = "string"

(***************************************************************************)
(*   get-store-products/route.ts: generateProductImages                    *)
(*   free-ai-service.ts: generateProductImage, tryUnsplash                 *)
(***************************************************************************)

\* What Unsplash may answer to the search:
\*   neterr      fetch rejects
\*   http        !response.ok
\*   noResults   data.results missing or empty
\*   badBody     results[0] has no urls object
\*   blankUrl    results[0].urls.regular is ""
\*   ok          results[0].urls.regular is a URL
UnsplashAnswers == {"neterr", "http", "noResults", "badBody", "blankUrl", "ok"}

\* A hint with a lone surrogate: encodeURIComponent throws URIError on it.
LoneSurrogate == "\\uD800"

\* The table keys of getFallbackProductImage that the lower-cased hint
\* contains: the model's hint at position 1 reads as "milk carton", at
\* position 2 as "buttermilk"; the others, and the default 'grocery item',
\* name no key of the table.
HintHas(hint) ==
    IF hint.s = "hint" /\ hint.n = 1 THEN {"milk"}
    ELSE IF hint.s = "hint" /\ hint.n = 2 THEN {"milk", "butter"}
    ELSE {}

\* productImageMap of getFallbackProductImage, shortened, in source order.
productImageMap ==
    <<[key |-> "milk", photo |-> "photo-1563636619-e9143da7973b"],
      [key |-> "butter", photo |-> "photo-1589985270824-415c14400784"],
      [key |-> "bread", photo |-> "photo-1549931319-a545dcf3bc73"]>>

\* getFallbackProductImage(hint): the first entry whose key the hint contains,
\* otherwise the generic photo.
getFallbackProductImage(hint) ==
    LET hits == {i \in 1..Len(productImageMap) : productImageMap[i].key \in HintHas(hint)}
    IN IF hits = {} THEN Text("photo-1542838132-92c53300491e", 0)
       ELSE Text(productImageMap[CHOOSE i \in hits : \A j \in hits : i <= j].photo, 0)

\* tryUnsplash: throws without a key, on a rejected fetch, on !response.ok, on
\* a body without results (and on results[0].urls missing, a TypeError);
\* otherwise returns data.results[0].urls.regular.
tryUnsplash(key, productName, answer) ==
    IF ~key THEN [threw |-> TRUE, value |-> Undefined]
    ELSE CASE answer \in {"neterr", "http", "noResults", "badBody"} ->
                  [threw |-> TRUE, value |-> Undefined]
           [] answer = "blankUrl" -> [threw |-> FALSE, value |-> EmptyText]
           [] OTHER -> [threw |-> FALSE, value |-> Text("images.unsplash.com/regular", productName.n)]

\* `https://placehold.co/600x600/...?text=${encodeURIComponent(productName)}...`
Placeholder(productName) ==
    IF productName.s = LoneSurrogate THEN [threw |-> TRUE, value |-> Undefined]
    ELSE [threw |-> FALSE, value |-> Text("placehold.co/600x600?text=", productName.n)]

\* FreeAIService.generateProductImage: the Unsplash URL if tryUnsplash
\* returned a truthy one; the placeholder if it threw or returned nothing.
generateProductImage(key, productName, answer) ==
    LET u == tryUnsplash(key, productName, answer)
    IN IF ~u.threw /\ TruthyField(u.value) THEN u ELSE Placeholder(productName)

\* (mutant) the map callback without its try/catch.
ImageOfNoCatch(b, key, product, answer) ==
    IF b = "forcedMock" THEN [threw |-> TRUE, value |-> Undefined]
    ELSE generateProductImage(key, product.dataAiHint, answer)

\* The map callback of generateProductImages: the image for one product. The
\* first definition of FreeAIService has no generateProductImage, so the call
\* throws; whatever is thrown inside the try gives the fallback image.
ImageOf(b, key, product, answer) ==
    LET r == IF b = "forcedMock" THEN [threw |-> TRUE, value |-> Undefined]
             ELSE generateProductImage(key, product.dataAiHint, answer)
    IN IF r.threw
       THEN [threw |-> FALSE, value |-> getFallbackProductImage(product.dataAiHint)]
       ELSE r

\* { ...product, image: imageUrl }
WithImage(product, url) == [product EXCEPT !.image = url]

\* The callback waits for Unsplash only if tryUnsplash gets as far as fetch.
Fetches(b, key) == b = "chain" /\ key

PendingJob == [pc |-> "fetching", threw |-> FALSE, product |-> Null]
DoneJob(product, r) ==
    IF r.threw THEN [pc |-> "rejected", threw |-> TRUE, product |-> Null]
    ELSE [pc |-> "done", threw |-> FALSE, product |-> WithImage(product, r.value)]

\* products.map(async (product) => ...): every callback is started; those that
\* do not reach a fetch are settled at once.
StartImages ==
    /\ ipc = "validated"
    /\ imgJobs' = [i \in 1..Len(imgIn) |->
                      IF Fetches(imgBuild, unsplashKey) THEN PendingJob
                      ELSE DoneJob(imgIn[i], ImageOf(imgBuild, unsplashKey, imgIn[i], "neterr"))]
    /\ ipc' = "joining"
    /\ UNCHANGED <<imgBuild, unsplashKey, imgIn, imgOut>>

\* Unsplash answers the search of the callback at position i.
ImageAnswer(i, answer) ==
    /\ ipc = "joining"
    /\ i \in 1..Len(imgJobs)
    /\ imgJobs[i].pc = "fetching"
    /\ imgJobs' = [imgJobs EXCEPT ![i] =
                      DoneJob(imgIn[i], ImageOf(imgBuild, unsplashKey, imgIn[i], answer))]
    /\ UNCHANGED <<imgBuild, unsplashKey, imgIn, imgOut, ipc>>

\* return await Promise.all(imagePromises): rejects as soon as one callback
\* has rejected, resolves when all are settled.
JoinImages ==
    /\ ipc = "joining"
    /\ \/ /\ \E i \in 1..Len(imgJobs) : imgJobs[i].pc = "rejected"
          /\ imgOut' = [threw |-> TRUE, products |-> <<>>]
       \/ /\ \A i \in 1..Len(imgJobs) : imgJobs[i].pc = "done"
          /\ imgOut' = [threw |-> FALSE,
                        products |-> [i \in 1..Len(imgJobs) |-> imgJobs[i].product]]
    /\ ipc' = "done"
    /\ UNCHANGED <<imgBuild, unsplashKey, imgIn, imgJobs>>

\* ---- the lists the check runs over --------------------------------------

MaxImageProducts == 3

\* The validated products: validateProducts applied to a list of up to
\* MaxImageProducts elements, some of them with a lone surrogate as hint.
ImageInputs ==
    {validateProducts(
        [t |-> "array",
         items |-> [i \in 1..k |->
                       IF i \in bad
                       THEN [Element(Plain, i) EXCEPT !.dataAiHint = Text(LoneSurrogate, i)]
                       ELSE Element(Plain, i)]]) :
        k \in 0..MaxImageProducts, bad \in SUBSET (1..MaxImageProducts)}

ImagesInit ==
    /\ imgBuild \in Builds
    /\ unsplashKey \in BOOLEAN
    /\ imgIn \in ImageInputs
    /\ imgJobs = <<>>
    /\ imgOut = Null
    /\ ipc = "validated"

InitImages == ImagesInit /\ CacheIdle /\ TextIdle /\ SugIdle /\ ProdIdle /\ PromoIdle /\ ImageCacheIdle /\ CallIdle /\ EstimatesIdle

NextImages ==
    \/ StartImages /\ UNCHANGED <<cacheVars, textVars, sugVars, prodVars, promoVars, icVars, callVars, estVars>>
    \/ \E i \in 1..MaxImageProducts, answer \in UnsplashAnswers :
          ImageAnswer(i, answer) /\ UNCHANGED <<cacheVars, textVars, sugVars, prodVars, promoVars, icVars, callVars, estVars>>
    \/ JoinImages /\ UNCHANGED <<cacheVars, textVars, sugVars, prodVars, promoVars, icVars, callVars, estVars>>

SpecImages == InitImages /\ [][NextImages]_vars

(***************************************************************************)
(* Claims about the product images, checked under SpecImages.              *)
(***************************************************************************)

\* The product p is q with another image.
SameButImage(p, q) == [p EXCEPT !.image = q.image] = q

\* C14: the images are resolved per product and joined: the join never
\* rejects, and the list it returns has the length of the validated list and,
\* position by position, the same product with its image replaced by a
\* non-empty URL; while the join is pending, a callback that has failed has
\* settled with the fallback image of its own product and has changed no
\* other callback.
C14_ImagesIsolatedAndJoined ==
    /\ ipc = "joining"
       => /\ Len(imgJobs) = Len(imgIn)
          /\ \A i \in 1..Len(imgJobs) : imgJobs[i].pc \in {"fetching", "done"}
          /\ \A i \in 1..Len(imgJobs) :
                imgJobs[i].pc = "done" => SameButImage(imgJobs[i].product, imgIn[i])
    /\ ipc = "done"
       => /\ ~imgOut.threw
          /\ Len(imgOut.products) = Len(imgIn)
          /\ \A i \in 1..Len(imgIn) :
                /\ SameButImage(imgOut.products[i], imgIn[i])
                /\ imgOut.products[i].image.t = "string"
                /\ imgOut.products[i].image.s # ""

\* C14 witness: of three products joined, the second has the fallback image
\* (its lookup failed and its hint cannot be encoded) and the other two have
\* the image Unsplash gave.
C14_Witness ==
    /\ ipc = "done" /\ ~imgOut.threw
    /\ Len(imgOut.products) = 3
    /\ imgOut.products[2].image = getFallbackProductImage(imgIn[2].dataAiHint)
    /\ imgOut.products[1].image = Text("images.unsplash.com/regular", 1)
    /\ imgOut.products[3].image = Text("images.unsplash.com/regular", 3)

(***************************************************************************)
(*        generate-product-image/route.ts: POST, the image cache           *)
(***************************************************************************)

\* A hint is a sequence of words and runs of white space.
IsSpace(tok) == tok \in {" ", "  ", "\t"}

\* String.prototype.toLowerCase on the words of the model's hints.
LowerWord(w) ==
    CASE w = "Fresh" -> "fresh"
      [] w = "Milk" -> "milk"
      [] w = "2L" -> "2l"
      [] w = "Canned" -> "canned"
      [] w = "Beans" -> "beans"
      [] w = "Gift" -> "gift"
      [] w = "Card" -> "card"
      [] w = "Buttermilk" -> "buttermilk"
      [] OTHER -> w

\* The keys of the fallback table a lower-cased word contains as a substring.
WordHas(w) ==
    CASE w = "milk" -> {"milk"}
      [] w = "buttermilk" -> {"butter", "milk"}
      [] w = "canned" -> {"canned"}
      [] OTHER -> {}

\* hint.toLowerCase()
HintLower(hint) == [i \in 1..Len(hint) |-> LowerWord(hint[i])]

\* input.dataAiHint.toLowerCase().replace(/\s+/g, '-')
NormalizeHint(hint) ==
    [i \in 1..Len(hint) |-> IF IsSpace(hint[i]) THEN "-" ELSE LowerWord(hint[i])]

\* input.dataAiHint.trim().length === 0
HintIsBlank(hint) == \A i \in 1..Len(hint) : IsSpace(hint[i])

\* productImageMap of getFallbackImage, shortened, in source order; pantry and
\* canned carry the URL that is also the default.
fallbackImageMap ==
    <<[key |-> "coffee", url |-> "photos/312418?w=400&h=400"],
      [key |-> "milk", url |-> "photos/248412?w=400&h=400"],
      [key |-> "butter", url |-> "photos/3311336?w=400&h=400"],
      [key |-> "bread", url |-> "photos/1775043?w=400&h=400"],
      [key |-> "canned", url |-> "photos/3962286?w=400&h=400"]>>

\* The default at the end of getFallbackImage.
DefaultGroceryImage == "photos/3962286?w=400&h=400"

\* The keys of the table that the lower-cased hint contains (no key of the
\* table has a blank in it here, so a key lies within one word).
HintKeys(hint) == UNION {WordHas(HintLower(hint)[i]) : i \in 1..Len(hint)}

\* (mutant) getFallbackImage without the table.
getFallbackImageDefaultOnly(hint) == DefaultGroceryImage

\* getFallbackImage(hint): the URL of the first entry of the table whose key
\* the lower-cased hint contains, otherwise the default.
getFallbackImage(hint) ==
    LET hits == {i \in 1..Len(fallbackImageMap) : fallbackImageMap[i].key \in HintKeys(hint)}
    IN IF hits = {} THEN DefaultGroceryImage
       ELSE fallbackImageMap[CHOOSE i \in hits : \A j \in hits : i <= j].url

\* What Pexels may answer to the search:
\*   http       !response.ok, or the fetch rejects
\*   noPhotos   data.photos missing or empty
\*   okA, okB   data.photos[0].src.medium is the URL A, or B
PexelsAnswers == {"http", "noPhotos", "okA", "okB"}

\* generateImageWithPexels once the key is there and fetch has settled.
PexelsResult(answer) ==
    CASE answer = "okA" -> [threw |-> FALSE, url |-> "pexels/A/medium"]
      [] answer = "okB" -> [threw |-> FALSE, url |-> "pexels/B/medium"]
      [] OTHER -> [threw |-> TRUE, url |-> ""]

\* imageCache[normalizedHint], "" if there is no such property.
CacheLookup(c, key) ==
    LET hits == {i \in 1..Len(c) : c[i].key = key}
    IN IF hits = {} THEN "" ELSE c[CHOOSE i \in hits : TRUE].url

\* imageCache[normalizedHint] = url
CacheStore(c, key, url) ==
    IF \E i \in 1..Len(c) : c[i].key = key
    THEN [i \in 1..Len(c) |-> IF c[i].key = key THEN [key |-> key, url |-> url] ELSE c[i]]
    ELSE Append(c, [key |-> key, url |-> url])

\* (mutant) the cache check left out.
ImageCacheHitNever(c, key) == FALSE

\* if (imageCache[normalizedHint])
ImageCacheHit(c, key) == CacheLookup(c, key) # ""

\* The request body: dataAiHint missing (or no string), or a string.
NoHint == [t |-> "missing", hint |-> <<>>]
Hint(tokens) == [t |-> "string", hint |-> tokens]

\* POST up to the flow: a ZodError gives 400, and so does a hint that is
\* empty or blank.
ImageBodyRejected(body) == body.t # "string" \/ body.hint = <<>> \/ HintIsBlank(body.hint)

ImgNoResp == [status |-> 0, imageUrl |-> ""]
ImgOk(url) == [status |-> 200, imageUrl |-> url]
ImgBad == [status |-> 400, imageUrl |-> ""]
ImgIdleReq == [body |-> NoHint, pc |-> "idle", resp |-> ImgNoResp]

MaxImgReqs == 3
ImgRequests == 1..MaxImgReqs

\* Requests are numbered in the order of their arrival.
ImgArrives(r) == ireq[r].pc = "idle" /\ \A q \in 1..(r - 1) : ireq[q].pc # "idle"

\* A request answered in the step of its arrival.
ImgDone(body, resp) ==
    [body |-> body, pc |-> "done", resp |-> resp]

\* POST arrives: rejected with 400; or answered from the cache; or, without a
\* key, generateImageWithPexels returns getFallbackImage(hint), which is
\* stored; or the Pexels search is fetched and the handler waits.
ImgStart(r, body) ==
    /\ ImgArrives(r)
    /\ LET key == NormalizeHint(body.hint) IN
       IF ImageBodyRejected(body)
       THEN /\ ireq' = [ireq EXCEPT ![r] = ImgDone(body, ImgBad)]
            /\ UNCHANGED <<imageCache, pexelsCalls>>
       ELSE IF ImageCacheHit(imageCache, key)
       THEN /\ ireq' = [ireq EXCEPT ![r] = ImgDone(body, ImgOk(CacheLookup(imageCache, key)))]
            /\ UNCHANGED <<imageCache, pexelsCalls>>
       ELSE IF ~pexelsKey
       THEN /\ imageCache' = CacheStore(imageCache, key, getFallbackImage(body.hint))
            /\ ireq' = [ireq EXCEPT ![r] = ImgDone(body, ImgOk(getFallbackImage(body.hint)))]
            /\ UNCHANGED pexelsCalls
       ELSE /\ ireq' = [ireq EXCEPT ![r] = [body |-> body, pc |-> "fetching",
                                            resp |-> ImgNoResp]]
            /\ pexelsCalls' = pexelsCalls + 1
            /\ UNCHANGED imageCache
    /\ UNCHANGED pexelsKey

\* Pexels has answered: the URL, or on failure getFallbackImage(hint), is
\* stored under the normalized hint and returned.
ImgAnswer(r, answer) ==
    /\ ireq[r].pc = "fetching"
    /\ LET key == NormalizeHint(ireq[r].body.hint)
           p == PexelsResult(answer)
           url == IF p.threw THEN getFallbackImage(ireq[r].body.hint) ELSE p.url
       IN /\ imageCache' = CacheStore(imageCache, key, url)
          /\ ireq' = [ireq EXCEPT ![r].pc = "done", ![r].resp = ImgOk(url)]
    /\ UNCHANGED <<pexelsKey, pexelsCalls>>

\* ---- the hints the check runs over ---------------------------------------

FreshMilk == <<"Fresh", " ", "Milk", " ", "2L">>

ImageBodies ==
    {Hint(<<"  ">>), Hint(FreshMilk), Hint(<<"fresh", "  ", "milk", "\t", "2l">>),
     Hint(<<"Canned", " ", "Beans">>), Hint(<<"Gift", " ", "Card">>)}

ImageCacheInit ==
    /\ imageCache = <<>>
    /\ pexelsKey \in BOOLEAN
    /\ ireq = [r \in ImgRequests |-> ImgIdleReq]
    /\ pexelsCalls = 0

InitImageCache ==
    ImageCacheInit /\ CacheIdle /\ TextIdle /\ SugIdle /\ ProdIdle /\ PromoIdle /\ ImagesIdle
    /\ CallIdle /\ EstimatesIdle

NextImageCache ==
    \/ \E r \in ImgRequests, body \in ImageBodies :
          ImgStart(r, body)
             /\ UNCHANGED <<cacheVars, textVars, sugVars, prodVars, promoVars, imgVars, callVars, estVars>>
    \/ \E r \in ImgRequests, answer \in PexelsAnswers :
          ImgAnswer(r, answer)
             /\ UNCHANGED <<cacheVars, textVars, sugVars, prodVars, promoVars, imgVars, callVars, estVars>>

SpecImageCache == InitImageCache /\ [][NextImageCache]_vars

(***************************************************************************)
(* Claims about the image endpoint, checked under SpecImageCache.          *)
(***************************************************************************)

ImgAnswered(r) == ireq[r].pc = "done" /\ ireq[r].resp.status = 200

\* C15 (as claimed): once a URL has been returned for a hint, every request
\* that arrives later with a hint of the same normalized key is answered with
\* that same URL, at once and without a fetch of the Pexels search.
C15_MemoizedByNormalizedHint ==
    [][\A q, r \in ImgRequests :
          (/\ ImgAnswered(q) /\ ireq[q].resp.imageUrl # ""
           /\ ImgArrives(r) /\ ireq'[r].pc # "idle"
           /\ ireq'[r].body.t = "string"
           /\ NormalizeHint(ireq'[r].body.hint) = NormalizeHint(ireq[q].body.hint))
          => /\ ireq'[r].pc = "done"
             /\ ireq'[r].resp = ireq[q].resp
             /\ pexelsCalls' = pexelsCalls]_vars

\* What the code does guarantee (not claim C15): a request that arrives while
\* an entry is stored under its normalized hint is answered with that entry
\* in the step of its arrival, without a fetch and without a change of the
\* cache.
ImageCacheHitServed ==
    [][\A r \in ImgRequests :
          (ImgArrives(r) /\ ireq'[r].pc # "idle"
             /\ ~ImageBodyRejected(ireq'[r].body)
             /\ ImageCacheHit(imageCache, NormalizeHint(ireq'[r].body.hint)))
          => /\ ireq'[r].pc = "done"
             /\ ireq'[r].resp = ImgOk(CacheLookup(imageCache, NormalizeHint(ireq'[r].body.hint)))
             /\ pexelsCalls' = pexelsCalls
             /\ imageCache' = imageCache]_vars

\* The URL of the first entry of the table whose key is in keys.
FirstTableUrl(keys) ==
    LET first == CHOOSE i \in 1..Len(fallbackImageMap) :
                    /\ fallbackImageMap[i].key \in keys
                    /\ \A j \in 1..(i - 1) : fallbackImageMap[j].key \notin keys
    IN fallbackImageMap[first].url

TableUrl(hint) ==
    IF HintKeys(hint) = {} THEN DefaultGroceryImage ELSE FirstTableUrl(HintKeys(hint))

\* C30: when the Pexels search fails for a hint, the URL of the keyword table
\* is stored under the normalized hint and returned; a request that arrives
\* while an entry is stored under its normalized hint is answered with the
\* entry, without a fetch and without a change of the cache, whether or not
\* Pexels would answer by then; and no entry is ever removed.
C30_FailureResultsCached ==
    [][/\ \A r \in ImgRequests : \A failure \in {"http", "noPhotos"} :
             ImgAnswer(r, failure)
             => /\ CacheLookup(imageCache', NormalizeHint(ireq[r].body.hint))
                      = TableUrl(ireq[r].body.hint)
                /\ ireq'[r].resp = ImgOk(TableUrl(ireq[r].body.hint))
       /\ \A r \in ImgRequests :
             (/\ ImgArrives(r) /\ ireq'[r].pc # "idle"
              /\ ~ImageBodyRejected(ireq'[r].body)
              /\ CacheLookup(imageCache, NormalizeHint(ireq'[r].body.hint)) # "")
             => /\ ireq'[r].pc = "done"
                /\ ireq'[r].resp
                      = ImgOk(CacheLookup(imageCache, NormalizeHint(ireq'[r].body.hint)))
                /\ pexelsCalls' = pexelsCalls
                /\ imageCache' = imageCache
       /\ \A i \in 1..Len(imageCache) :
             CacheLookup(imageCache', imageCache[i].key) # ""]_vars

\* C30 witness: with a Pexels key, the one search made for "Fresh Milk 2L"
\* failed, the milk URL of the table was stored and returned, and a later
\* request whose hint has the same normalized key was answered with it, without
\* a second search.
C30_Witness ==
    /\ pexelsKey /\ pexelsCalls = 1
    /\ CacheLookup(imageCache, NormalizeHint(FreshMilk)) = "photos/248412?w=400&h=400"
    /\ \E r, q \in ImgRequests :
          /\ r < q
          /\ ImgAnswered(r) /\ ireq[r].body.hint = FreshMilk
          /\ ImgAnswered(q) /\ ireq[q].body.hint # FreshMilk
          /\ NormalizeHint(ireq[q].body.hint) = NormalizeHint(FreshMilk)
          /\ ireq[r].resp.imageUrl = "photos/248412?w=400&h=400"
          /\ ireq[q].resp = ireq[r].resp

(***************************************************************************)
(*      A REQUEST FROM ITS BODY TO ITS RESPONSE: THE FOUR ROUTE HANDLERS    *)
(*                                                                         *)
(* suggest-item-completions/route.ts: POST, parseAIResponse                 *)
(* get-store-products/route.ts: POST, getStoreProductsFlow, parseAIResponse *)
(* get-current-promotions/route.ts: GET (cold cache), parseAIResponse       *)
(* generate-product-image/route.ts: POST (cold cache)                       *)
(*                                                                         *)
(* The model's text is a sequence of tokens: "prose" is any run of          *)
(* characters without braces, brackets or fences; "key" is the property     *)
(* name the endpoint reads ("suggestions", "products", "promotions") with   *)
(* its colon, "other" any other property name with its colon; "e" is one    *)
(* well-formed element of the list; "fence" is an opening or closing code fence. *)
(***************************************************************************)

\* text.replace(<the opening and the closing code fences>, '').trim()
IsNoFence(tok) == tok # "fence"
CleanTextKeepsFences(t) == t
CleanText(t) == SelectSeq(t, IsNoFence)

\* JSON.parse: what it returns, or that it threw.
Unparsed == [ok |-> FALSE, v |-> "none", field |-> "none", n |-> 0]
Parsed(v, field, n) == [ok |-> TRUE, v |-> v, field |-> field, n |-> n]

\* e, e, ..., e
IsElements(s) ==
    \/ Len(s) = 0
    \/ /\ Len(s) % 2 = 1
       /\ \A i \in 1..Len(s) : s[i] = (IF i % 2 = 1 THEN "e" ELSE ",")

\* [ e, ..., e ]
IsArrayText(s) ==
    Len(s) >= 2 /\ s[1] = "[" /\ s[Len(s)] = "]" /\ IsElements(SubSeq(s, 2, Len(s) - 1))

\* JSON.parse over the token texts: null, {}, an array of elements, or an
\* object with one property holding an array of elements; anything else
\* throws a SyntaxError.
JSONparse(s) ==
    IF s = <<"null">> THEN Parsed("null", "none", 0)
    ELSE IF s = <<"{", "}">> THEN Parsed("object", "none", 0)
    ELSE IF IsArrayText(s) THEN Parsed("array", "none", 0)
    ELSE IF /\ Len(s) >= 5 /\ s[1] = "{" /\ s[Len(s)] = "}"
            /\ s[2] \in {"key", "other"} /\ IsArrayText(SubSeq(s, 3, Len(s) - 1))
         THEN Parsed("object", s[2], Cardinality({i \in 1..Len(s) : s[i] = "e"}))
    ELSE Unparsed

\* cleanedText.match(/\{[\s\S]*\}/): greedy, from the first "{" to the last
\* "}" after it; <<>> when there is no match.
BraceMatch(t) ==
    LET opens == {i \in 1..Len(t) : t[i] = "{"}
        first == CHOOSE i \in opens : \A k \in opens : i <= k
        closes == {j \in 1..Len(t) : t[j] = "}" /\ opens # {} /\ j > first}
        last == CHOOSE j \in closes : \A k \in closes : j >= k
    IN IF opens = {} \/ closes = {} THEN <<>> ELSE SubSeq(t, first, last)

\* The try block both parseAIResponse of the suggestions and of the
\* store-products route share: parse the cleaned text, else parse the brace
\* match, else throw.
ParseCleanedOrMatch(t) ==
    LET cleaned == CleanText(t)
        direct == JSONparse(cleaned)
        jsonMatch == BraceMatch(cleaned)
    IN IF direct.ok THEN direct
       ELSE IF jsonMatch # <<>> THEN JSONparse(jsonMatch)
       ELSE Unparsed

\* suggest-item-completions parseAIResponse: the catch returns
\* { suggestions: [] }.
parseAIResponseSuggestions(t) ==
    LET r == ParseCleanedOrMatch(t)
    IN IF r.ok THEN r ELSE Parsed("object", "key", 0)

\* get-store-products parseAIResponse: the catch throws
\* new Error('Invalid response format from AI').
parseAIResponseProducts(t) == ParseCleanedOrMatch(t)

\* text.match(/"promotions"\s*:\s*\[[\s\S]*?\](?=\s*[}\]])/): the leftmost
\* "promotions": [ for which a closing "]" followed by "}" or "]" exists, up
\* to the nearest such "]"; <<>> when there is no match.
PromotionsMatch(t) ==
    LET Ends(i) == {j \in (i + 2)..(Len(t) - 1) : t[j] = "]" /\ t[j + 1] \in {"}", "]"}}
        starts == {i \in 1..(Len(t) - 1) : t[i] = "key" /\ t[i + 1] = "[" /\ Ends(i) # {}}
        first == CHOOSE i \in starts : \A k \in starts : i <= k
        last == CHOOSE j \in Ends(first) : \A k \in Ends(first) : j <= k
    IN IF starts = {} THEN <<>> ELSE SubSeq(t, first, last)

\* get-current-promotions parseAIResponse: the match wrapped in braces, else
\* the cleaned text; the catch returns { promotions: [] }.
parseAIResponsePromotions(t) ==
    LET promotionsMatch == PromotionsMatch(t)
        partial == JSONparse(<<"{">> \o promotionsMatch \o <<"}">>)
        whole == JSONparse(CleanText(t))
    IN IF promotionsMatch # <<>> /\ partial.ok THEN partial
       ELSE IF whole.ok THEN whole
       ELSE Parsed("object", "key", 0)

\* The list a parsed value holds under the endpoint's property, its elements
\* taken from the sequence given; "absent" when the value is no object or has
\* no such property.
ListOf(parsed, elements) ==
    IF parsed.v = "object" /\ parsed.field = "key"
    THEN [t |-> "array", items |-> SubSeq(elements, 1, parsed.n)]
    ELSE [t |-> "absent", items |-> <<>>]

\* The elements a well-formed "e" stands for, per endpoint and position.
ProductElements == [i \in 1..Len(DistinctSuggestions) |-> Element(Plain, i)]
PromotionElements == [i \in 1..Len(DistinctSuggestions) |-> GoodPromotion]

\* parsedResult.products || [] and parsedResult.promotions || []
OrEmptyList(list) == IF list.t = "array" THEN list ELSE [t |-> "array", items |-> <<>>]

\* ---- the responses ------------------------------------------------------

NoAnswer == [status |-> 0, n |-> 0, imageUrl |-> ""]
Status400 == [status |-> 400, n |-> 0, imageUrl |-> ""]
Status500 == [status |-> 500, n |-> 0, imageUrl |-> ""]
ListAnswer(n) == [status |-> 200, n |-> n, imageUrl |-> ""]
ImageAnswered(url) == [status |-> 200, n |-> 0, imageUrl |-> url]

\* The request body's required field: absent (or no string), "", blanks only,
\* or a text.
FieldKinds == {"missing", "empty", "blank", "ok"}

\* The dataAiHint of the image request with the field of the given kind.
ImageBody(field) ==
    CASE field = "missing" -> NoHint
      [] field = "empty" -> Hint(<<>>)
      [] field = "blank" -> Hint(<<"  ">>)
      [] OTHER -> Hint(FreshMilk)

\* suggestions POST after the provider's text: parse, validate, respond; a
\* TypeError on a null payload reaches the handler's catch.
SuggestionsAnswer(t) ==
    LET parsed == parseAIResponseSuggestions(t)
        out == validateAndProcessSuggestions(
                   IF parsed.v = "null" THEN Null
                   ELSE [suggestions |-> ListOf(parsed, DistinctSuggestions)])
    IN IF out.threw THEN Status500 ELSE ListAnswer(Len(out.suggestions))

\* getStoreProductsFlow after the provider's text, up to the call of
\* generateProductImages: the validated products, or that it threw.
ValidatedProducts(t) ==
    LET parsed == parseAIResponseProducts(t)
    IN IF ~parsed.ok \/ parsed.v = "null" THEN [threw |-> TRUE, products |-> <<>>]
       ELSE [threw |-> FALSE,
             products |-> validateProducts(OrEmptyList(ListOf(parsed, ProductElements)))]

\* getStoreProductsFlow and the POST around it.
ProductsAnswer(t, b, key, unsplash) ==
    LET validated == ValidatedProducts(t)
        images == [i \in 1..Len(validated.products) |->
                      ImageOf(b, key, validated.products[i], unsplash)]
    IN IF validated.threw \/ \E i \in 1..Len(images) : images[i].threw
       THEN Status500 ELSE ListAnswer(Len(images))

\* getCurrentPromotionsFlow and the GET around it, the cache being empty.
PromotionsAnswer(t) ==
    LET parsed == parseAIResponsePromotions(t)
        out == processPromotionsWithImages(OrEmptyList(ListOf(parsed, PromotionElements)).items)
    IN IF parsed.v = "null" \/ out.threw THEN Status500
       ELSE ListAnswer(Len(out.promotions))

\* POST and GET up to the first await after the body was read: the schema
\* parse, the handler's own check of the field, and the call that follows.
CallValidate ==
    /\ cpc = "arrived"
    /\ LET rejected == cpc' = "done" /\ reply' = Status400 /\ UNCHANGED contacted
           generates == /\ cpc' = "generating" /\ contacted' = contacted \cup {"provider"}
                        /\ UNCHANGED reply
       IN CASE call.ep = "suggestions" ->
                 IF call.field = "missing" THEN rejected
                 ELSE IF call.field \in {"empty", "blank"}
                 THEN cpc' = "done" /\ reply' = ListAnswer(0) /\ UNCHANGED contacted
                 ELSE generates
            [] call.ep = "products" ->
                 IF call.field = "missing" THEN rejected ELSE generates
            [] call.ep = "promotions" -> generates
            [] OTHER ->
                 IF ImageBodyRejected(ImageBody(call.field)) THEN rejected
                 ELSE IF ~call.key
                 THEN /\ cpc' = "done"
                      /\ reply' = ImageAnswered(getFallbackImage(ImageBody(call.field).hint))
                      /\ UNCHANGED contacted
                 ELSE /\ cpc' = "fetching" /\ contacted' = contacted \cup {"images"}
                      /\ UNCHANGED reply
    /\ UNCHANGED <<call, aiText>>

\* FreeAIService.generateText resolves to the text t: the flow parses it,
\* validates the list, resolves the images and the handler responds.
CallTextArrives(t) ==
    /\ cpc = "generating"
    /\ aiText' = t
    /\ cpc' = "done"
    /\ CASE call.ep = "suggestions" ->
              reply' = SuggestionsAnswer(t) /\ UNCHANGED contacted
         [] call.ep = "products" ->
              \E unsplash \in UnsplashAnswers :
                 /\ reply' = ProductsAnswer(t, call.build, call.key, unsplash)
                 /\ contacted' =
                       IF Fetches(call.build, call.key) /\ ~ValidatedProducts(t).threw
                          /\ Len(ValidatedProducts(t).products) > 0
                       THEN contacted \cup {"images"} ELSE contacted
         [] OTHER -> reply' = PromotionsAnswer(t) /\ UNCHANGED contacted
    /\ UNCHANGED call

\* The Pexels search of the image POST answers.
CallImageArrives(pexels) ==
    /\ cpc = "fetching"
    /\ LET r == PexelsResult(pexels)
       IN reply' = ImageAnswered(IF r.threw THEN getFallbackImage(ImageBody(call.field).hint)
                                  ELSE r.url)
    /\ cpc' = "done"
    /\ UNCHANGED <<call, aiText, contacted>>

\* ---- the texts the check runs over --------------------------------------

MaxElements == 2

\* { "key": [ e, ..., e ] } with n elements
ObjectText(name, n) ==
    <<"{", name, "[">> \o [i \in 1..(2 * n - 1) |-> IF i % 2 = 1 THEN "e" ELSE ","]
    \o <<"]", "}">>

\* Texts without parseable JSON: nothing, prose, prose with braces, an object
\* cut off inside its list.
UnparseableTexts ==
    {<<>>, <<"prose">>, <<"prose", "{", "prose", "}">>, <<"{", "key", "[", "e", ",">>}

\* Texts JSON.parse accepts: the object with the endpoint's list, an object
\* with another list, the empty object, an array, null.
ValidJsonTexts ==
    {ObjectText("key", n) : n \in 0..MaxElements}
    \cup {ObjectText("other", 1), <<"{", "}">>, <<"[", "e", "]">>, <<"null">>}

\* The text between an opening and a closing code fence.
Fenced(j) == <<"fence">> \o j \o <<"fence">>

\* The text with prose before it, after it, or both.
InProse(j) == {<<"prose">> \o j, j \o <<"prose">>, <<"prose">> \o j \o <<"prose">>}

\* { "key": [ e, ..., e, {<cut>   : the object cut off inside the element that
\* follows n complete elements.
TruncatedText(n) ==
    <<"{", "key", "[">> \o [i \in 1..(2 * n) |-> IF i % 2 = 1 THEN "e" ELSE ","]
    \o <<"{", "prose">>

AiTexts ==
    UnparseableTexts
    \cup ValidJsonTexts
    \cup {Fenced(j) : j \in ValidJsonTexts}
    \cup UNION {InProse(j) : j \in ValidJsonTexts}
    \cup {TruncatedText(n) : n \in 0..MaxElements}

CallInit ==
    /\ \E ep \in {"suggestions", "products", "promotions", "image"},
          field \in FieldKinds, b \in {"forcedMock", "chain"}, key \in BOOLEAN :
          /\ ep = "promotions" => field = "ok"
          /\ ep # "products" => b = "chain"
          /\ ep \in {"suggestions", "promotions"} => ~key
          /\ call = [ep |-> ep, field |-> field, build |-> b, key |-> key]
    /\ aiText = <<>>
    /\ cpc = "arrived"
    /\ reply = NoAnswer
    /\ contacted = {}

InitCall ==
    CallInit /\ CacheIdle /\ TextIdle /\ SugIdle /\ ProdIdle /\ PromoIdle /\ ImagesIdle
    /\ ImageCacheIdle /\ EstimatesIdle

NextCall ==
    \/ CallValidate
       /\ UNCHANGED <<cacheVars, textVars, sugVars, prodVars, promoVars, imgVars, icVars, estVars>>
    \/ \E t \in AiTexts : CallTextArrives(t)
       /\ UNCHANGED <<cacheVars, textVars, sugVars, prodVars, promoVars, imgVars, icVars, estVars>>
    \/ \E pexels \in PexelsAnswers : CallImageArrives(pexels)
       /\ UNCHANGED <<cacheVars, textVars, sugVars, prodVars, promoVars, imgVars, icVars, estVars>>

SpecCall == InitCall /\ [][NextCall]_vars

(***************************************************************************)
(* Claims about the request handlers, checked under SpecCall.              *)
(***************************************************************************)

\* The text holds no parseable JSON: no run of its tokens is accepted by
\* JSON.parse.
NoParseableJson(t) ==
    \A i \in 1..Len(t) : \A j \in i..Len(t) : ~JSONparse(SubSeq(t, i, j)).ok

\* The handler has answered after generateText resolved.
AnsweredFromText == cpc = "done" /\ "provider" \in contacted

\* C12 (as claimed): when the model's text holds no parseable JSON, the
\* suggestions, the store-products and the promotions handler each answer with
\* status 200 and an empty list, never with a 500.
C12_UnparseableTextGivesEmptyList ==
    (AnsweredFromText /\ NoParseableJson(aiText)) => reply = ListAnswer(0)

\* What the code does guarantee (not claim C12): on a text without parseable
\* JSON the suggestions and the promotions handler answer with status 200 and
\* an empty list, and the store-products handler answers with status 500.
UnparseableTextPerEndpoint ==
    (AnsweredFromText /\ NoParseableJson(aiText))
    => reply = (IF call.ep = "products" THEN Status500 ELSE ListAnswer(0))

\* What parseAIResponse of the endpoint returns for the text ("products":
\* ok is FALSE when it throws).
Extracted(ep, t) ==
    CASE ep = "suggestions" -> parseAIResponseSuggestions(t)
      [] ep = "products" -> parseAIResponseProducts(t)
      [] OTHER -> parseAIResponsePromotions(t)

\* C22 (as claimed): for a promotions text cut off inside the element that
\* follows n complete promotions, the handler answers with those n promotions.
C22_TruncatedGivesPrefix ==
    \A n \in 0..MaxElements :
       (AnsweredFromText /\ call.ep = "promotions" /\ aiText = TruncatedText(n))
       => reply = ListAnswer(n)

\* What the code does (not claim C22): a promotions text cut off inside its
\* list gives the empty list, however many promotions were complete.
TruncatedGivesEmptyList ==
    \A n \in 0..MaxElements :
       (AnsweredFromText /\ call.ep = "promotions" /\ aiText = TruncatedText(n))
       => /\ Extracted("promotions", aiText) = Parsed("object", "key", 0)
          /\ reply = ListAnswer(0)

C13_MissingOrEmptyFieldRejected ==
    (call.ep \in {"suggestions", "products", "image"} /\ call.field \in {"missing", "empty"})
    => /\ contacted = {}
       /\ cpc = "done" => reply = Status400

\* What the code does guarantee (not claim C13): a request whose required
\* field is missing is answered with status 400 without any backend being
\* contacted; so is an image request whose dataAiHint is empty or blank.
MissingFieldRejected ==
    (\/ call.ep \in {"suggestions", "products", "image"} /\ call.field = "missing"
     \/ call.ep = "image" /\ call.field \in {"empty", "blank"})
    => /\ contacted = {}
       /\ cpc = "done" => reply = Status400

(***************************************************************************)
(*        PRICE ESTIMATES: THE RECOMPUTATION OF THE DERIVED FIELDS         *)
(*                                                                         *)
(* The get-price-estimates route named by app/page.tsx is not among the    *)
(* source files; its recomputation is modelled from the specification      *)
(* (section 4.3). The payload it receives when no provider answers is the  *)
(* one generateMockResponse returns (lib/free-ai-service.ts). Prices are in *)
(* cents.                                                                  *)
(***************************************************************************)

\* A price of the breakdown: a number, or a value that is no number.
NoPrice == [t |-> "string", s |-> "n/a", n |-> 0]

\* A missing or non-numeric price counts as 0.
PriceOrZero(price) == IF price.t = "number" THEN price.n ELSE 0

RECURSIVE SumPrices(_)
SumPrices(breakdown) ==
    IF breakdown = <<>> THEN 0
    ELSE PriceOrZero(Head(breakdown)) + SumPrices(Tail(breakdown))

\* Step 1: totalPrice = sum of the breakdown's prices; the model's own
\* totalPrice is discarded.
WithTotal(store) == [store EXCEPT !.totalPrice = SumPrices(store.priceBreakdown)]

\* (mutant) every store that achieves the minimum marked cheapest.
FirstMinimumAll(stores) ==
    {i \in 1..Len(stores) : \A k \in 1..Len(stores) : stores[i].totalPrice <= stores[k].totalPrice}

\* Step 2: the positions marked cheapest: the first store, in input order,
\* that achieves the minimum totalPrice.
FirstMinimum(stores) ==
    {i \in 1..Len(stores) :
        /\ \A k \in 1..Len(stores) : stores[i].totalPrice <= stores[k].totalPrice
        /\ \A k \in 1..(i - 1) : stores[k].totalPrice > stores[i].totalPrice}

\* Step 3: sort ascending by totalPrice, equal totals keeping their order.
RECURSIVE InsertByTotal(_, _)
InsertByTotal(sorted, store) ==
    IF sorted = <<>> THEN <<store>>
    ELSE IF Head(sorted).totalPrice <= store.totalPrice
    THEN <<Head(sorted)>> \o InsertByTotal(Tail(sorted), store)
    ELSE <<store>> \o sorted

RECURSIVE SortByTotal(_)
SortByTotal(stores) ==
    IF stores = <<>> THEN <<>>
    ELSE InsertByTotal(SortByTotal(SubSeq(stores, 1, Len(stores) - 1)), stores[Len(stores)])

\* The recomputation: totals, the cheapest flag, the order.
RecomputeStores(stores) ==
    LET totals == [i \in 1..Len(stores) |-> WithTotal(stores[i])]
        cheapest == FirstMinimum(totals)
    IN SortByTotal([i \in 1..Len(totals) |->
                       [totals[i] EXCEPT !.isCheapest = (i \in cheapest)]])

\* A store as the payload names it; pos is its position in the payload.
Store(pos, name, totalPrice, breakdown, isCheapest) ==
    [pos |-> pos, name |-> name, totalPrice |-> totalPrice,
     priceBreakdown |-> breakdown, isCheapest |-> isCheapest]

\* The stores of generateMockResponse's price-estimates payload.
MockStores ==
    <<Store(1, "Checkers", 24550, <<Number(2599), Number(1850), Number(4500), Number(15600)>>,
            TRUE),
      Store(2, "Pick n Pay", 26875, <<Number(2850), Number(2000), Number(4825), Number(17200)>>,
            FALSE),
      Store(3, "Shoprite", 23890, <<Number(2499), Number(1750), Number(4200), Number(15440)>>,
            TRUE)>>

\* ---- the payloads the check runs over -----------------------------------

MaxStores == 3

\* The breakdowns a store of the payload may have.
Breakdowns ==
    {<<>>, <<Number(1)>>, <<Number(2)>>, <<Number(1), Number(1)>>, <<NoPrice, Number(2)>>}

Recompute ==
    /\ epc = "parsed"
    /\ estOut' = RecomputeStores(estIn)
    /\ epc' = "done"
    /\ UNCHANGED estIn

EstimatesInit ==
    /\ \/ estIn = MockStores
       \/ \E n \in 1..MaxStores :
             \E b \in [1..n -> Breakdowns], c \in [1..n -> BOOLEAN] :
                estIn = [i \in 1..n |-> Store(i, "store", 1, b[i], c[i])]
    /\ estOut = <<>>
    /\ epc = "parsed"

InitEstimates == EstimatesInit /\ CacheIdle /\ TextIdle /\ SugIdle /\ ProdIdle /\ PromoIdle /\ ImagesIdle /\ ImageCacheIdle /\ CallIdle

NextEstimates == Recompute /\ UNCHANGED <<cacheVars, textVars, sugVars, prodVars, promoVars, imgVars, icVars, callVars>>

SpecEstimates == InitEstimates /\ [][NextEstimates]_vars

(***************************************************************************)
(* Claims about the recomputation, checked under SpecEstimates.            *)
(***************************************************************************)

\* C17: after the recomputation of a non-empty list of stores, every total is
\* the sum of its breakdown whatever total the payload claimed, exactly one
\* store is marked cheapest whatever flags the payload claimed, and it is the
\* first store in input order that achieves the minimum total.
C17_ExactlyOneCheapest ==
    (epc = "done" /\ estIn # <<>>)
    => /\ \A i \in 1..Len(estOut) :
             estOut[i].totalPrice = SumPrices(estIn[estOut[i].pos].priceBreakdown)
       /\ \E i \in 1..Len(estOut) :
             /\ estOut[i].isCheapest
             /\ \A k \in 1..Len(estOut) : estOut[k].isCheapest => k = i
             /\ \A k \in 1..Len(estOut) :
                   /\ estOut[i].totalPrice <= estOut[k].totalPrice
                   /\ estOut[k].totalPrice = estOut[i].totalPrice
                      => estOut[i].pos <= estOut[k].pos

\* C17 (witness): the recomputation has run on a payload in which two stores
\* tie for the minimum and the payload marked the second of them, and on the
\* mock payload, which marks two stores.
C17_Witness ==
    /\ epc = "done"
    /\ \/ estIn = MockStores /\ estOut[1].name = "Shoprite" /\ estOut[1].isCheapest
       \/ \E i, k \in 1..Len(estIn) :
             /\ i < k /\ ~estIn[i].isCheapest /\ estIn[k].isCheapest
             /\ SumPrices(estIn[i].priceBreakdown) = SumPrices(estIn[k].priceBreakdown)
             /\ \A j \in 1..Len(estIn) :
                   SumPrices(estIn[j].priceBreakdown) >= SumPrices(estIn[i].priceBreakdown)

====
